---- MODULE Spec2Model ----
(***************************************************************************)
(* Model of the fan-club communicator (FCCommunicator.py): the discovery   *)
(* listener, the per-device worker (_slaveRoutine), the command router,    *)
(* the firmware-update triple and the output publisher.                    *)
(***************************************************************************)
EXTENDS Integers, Sequences, FiniteSets, TLC

\* ------------------------------------------------------------------ bounds
\* profile[ac.maxTimeouts]: consecutive missed replies tolerated
MaxTimeouts == 2
\* profile[ac.maxFans]: length of every per-device RPM / duty-cycle vector
MaxFans == 2
\* cap on the outbound exchange index at which a worker still starts a cycle
MaxIndex == 5
\* the same cap where a connection lives through two runs of missed replies
LongIndex == 8
\* largest exchange index / data index carried by an inbound datagram
MaxSeq == 2
\* capacity of a device's mailbox of outbound commands
MaxQueue == 2
\* The drops a mailbox counts before the router stops sending it commands.
MaxDrops == 1
\* The entries the error history holds (max_history_size, scaled down).
MaxHistory == 2

\* ------------------------------------------------------- program constants
PortMax == 65535
MacLength == 17
HskTries == 2
MOSI_DC == 21
MOSI_DISCONNECT == 25
MOSI_REBOOT == 26
MOSI_DC_MULTI == 27
\* self.max_retry_attempts of the ErrorRecoveryManager.
MaxRetryAttempts == 3

\* --------------------------------------------------------------- universes
NoIP == "None"
NoVersion == "None"
Passcode == "good"
MACS == {"m1", "m2"}
ShortMAC == "short"
MacLen(mac) == IF mac = ShortMAC THEN 5 ELSE MacLength
Versions == {"v1", "v2"}
\* self.defaultSlave[ac.SV_maxFans]: fan count given to a discovered device
DefaultFans == MaxFans
\* the fan count of a saved device
SavedFans == MaxFans - 1
\* a token that int()/float() rejects
Bad == -1

VARIABLES
    slaves,         \* self.slaves: the registry, a sequence of device records
    macToIndexMap,  \* self.macToIndexMap
    wk,             \* per device: the locals of its _slaveRoutine thread
    flashFlag,      \* self.flashFlag
    targetVersion,  \* self.targetVersion
    flashMessage,   \* self.flashMessage
    lis,            \* the listener thread's pending status update
    sent,           \* the datagrams emitted by the last step
    pub,            \* the output thread's loop state
    emitted,        \* the last feedback vector sent on feedbackPipeSend
    slavesLock,     \* self.slavesLock: free, or held by some other task
    slaveUpdateQueue, \* the last state vector put on self.slaveUpdateQueue
    stopped,        \* self.stopped, the stop signal
    inp,            \* the input thread: running or not, how it took the
                    \* last vector, and where it is in a handler
    bc,             \* the broadcast thread: running or not
    packetLoss,     \* the network: TRUE once it delivers no datagram any more
    joined,         \* a caller of join() with no timeout has returned
    recovery        \* the ErrorRecoveryManager: strategies, history, last call

vars == <<slaves, macToIndexMap, wk, flashFlag, targetVersion, flashMessage,
          lis, sent, pub, emitted, slavesLock, slaveUpdateQueue,
          stopped, inp, bc, packetLoss, joined, recovery>>

\* ----------------------------------------------------------------- helpers
Min(a, b) == IF a < b THEN a ELSE b
Zeros(n) == [k \in 1..n |-> 0]
Msg(t, a) == [t |-> t, a |-> a]
Ping == Msg("P", <<>>)
\* _makeHSK(): the descriptor names the ports of the device's private
\* sockets (one number stands for the pair); its other fields are constants
\* of the profile.
MakeHSK(port) == Msg("H", <<port>>)

\* A datagram handed to sendto(): ch is the socket/port class it goes to
\* ("mosi": the device's MOSI port, "lst": the device's listener port,
\* "bc": the broadcast address, "reply": the sender of a beacon), seq the
\* exchange index it carries (-1: none), n the number of copies put on the
\* wire (0: sendto() failed).
Out(ch, to, seq, m, n) ==
    [ch |-> ch, to |-> to, seq |-> seq, t |-> m.t, a |-> m.a, n |-> n]

\* The feedback pair a device record holds before any telemetry.
InitialMISO == [rpms |-> Zeros(MaxFans), dcs |-> Zeros(MaxFans)]

\* FCSlave(...): a fresh device record.
NewSlave(mac, status, fans, version, ip, misoP, mosiP) ==
    [mac |-> mac, status |-> status, fans |-> fans, version |-> version,
     ip |-> ip, misoP |-> misoP, mosiP |-> mosiP,
     mosiIndex |-> 0, misoIndex |-> 0, dataIndex |-> 0,
     miso |-> InitialMISO, mosiQ |-> <<>>, drops |-> 0]

\* The locals of _slaveRoutine after its set-up section; tries, which every
\* handshake assigns before it reads it, is kept at 0 outside a handshake.
\* hskQuiet, hskSent, hskWaits and script are history.  hskQuiet: no datagram
\* at all has arrived during the current (or last failed) handshake; hskSent
\* and hskWaits: the descriptors sent and the receive waits made in it,
\* counted for as long as it is quiet.  script: how far this worker has
\* followed the run "first handshake, acknowledged, then silence" with every
\* datagram of its own sent successfully -- 1 before the handshake, 2 once
\* the first descriptor is out, 3 once CONNECTED, 3 + n after n silent
\* cycles; 0 once anything else has happened.  sock is the port pair the
\* device's private sockets are bound to, MHSK the descriptor made for them;
\* advertised is history: the ports in the last descriptor handed to _send,
\* 0 before the first.
FirstPort == 1
NewWorker ==
    [pc |-> "top", tries |-> 0, timeouts |-> 0, tryBuffer |-> TRUE,
     message |-> Ping, failedHSKs |-> 0,
     sock |-> FirstPort, MHSK |-> MakeHSK(FirstPort), advertised |-> 0,
     hskSent |-> 0, hskWaits |-> 0, hskQuiet |-> FALSE, script |-> 1]

\* FCSlave.resetIndices()
ResetIndices(sl) == [sl EXCEPT !.mosiIndex = 0, !.misoIndex = 0, !.dataIndex = 0]

\* FCSlave.setStatus(newStatus, ip, misoP, mosiP, version): the sequence
\* counters restart when a (re)handshake begins.
SlaveSetStatus(sl, newStatus, netargs) ==
    LET s1 == [sl EXCEPT !.status = newStatus]
        s2 == IF netargs = <<>> THEN s1
              ELSE [s1 EXCEPT !.ip = netargs[1], !.misoP = netargs[2],
                              !.mosiP = netargs[3], !.version = netargs[4]]
    IN IF newStatus = "KNOWN" THEN ResetIndices(s2) ELSE s2

\* FCSlave.getMISO() / setMISO(): the latest feedback pair.
GetMISO(sl) == sl.miso
SetMISO(sl, pair) == [sl EXCEPT !.miso = pair]

\* safe_acquire_lock('slavesLock', self.slavesLock, timeout=5.0): the lock
\* is obtained unless another holder keeps it for the whole bounded wait.
Free == "free"
Held == "held"
Acquired == slavesLock = Free

\* Variant of SetSlaveStatus that updates the record without the lock.
SetSlaveStatusAnyway(sl, newStatus, netargs) ==
    SlaveSetStatus(sl, newStatus, netargs)
\* setSlaveStatus: the update made under slavesLock, skipped when the lock
\* is not obtained.
SetSlaveStatus(sl, newStatus, netargs) ==
    IF Acquired THEN SlaveSetStatus(sl, newStatus, netargs) ELSE sl

\* getSlaveStateVector(slave), without the name.
GetSlaveStateVector(index, sl) == <<index, sl.mac, sl.status, sl.fans, sl.version>>
NoUpdate == <<>>
\* slaveUpdateQueue.put_nowait(...) at the end of a setSlaveStatus on the
\* record at `index`, sl being the record after the call.
PutUpdate(index, sl) ==
    IF Acquired THEN GetSlaveStateVector(index, sl) ELSE slaveUpdateQueue

SetSlave(i, sl) == [slaves EXCEPT ![i] = sl]
SetWk(i, w) == [wk EXCEPT ![i] = w]

\* ------------------------------------------------------------ _send
\* _send(message, slave, repeat, hsk): the exchange index is advanced (or
\* zeroed for a handshake) before the datagram is built; the loop over
\* `repeat` stops at the first successful sendto(); a failure is swallowed.
\* Variant of SendIndex in which a handshake does not zero the index.
SendIndexNoReset(mosiIndex, hsk) == mosiIndex + 1
SendIndex(mosiIndex, hsk) == IF hsk THEN 0 ELSE mosiIndex + 1

Send(sl, i, m, hsk, ok) ==
    LET idx == SendIndex(sl.mosiIndex, hsk)
    IN [sl |-> [sl EXCEPT !.mosiIndex = idx],
        out |-> Out("mosi", i, idx, m, IF ok THEN 1 ELSE 0)]

\* _sendToListener(message, slave, repeat): `repeat` copies to the device's
\* listener port, or through the broadcast address when no ip is known.
SendToListenerIndexed(sl, i, m, repeat) ==
    Out("mosi", i, sl.mosiIndex, m, 1)

SendToListener(sl, i, m, repeat) ==
    IF sl.ip # NoIP THEN Out("lst", i, -1, m, repeat)
    ELSE Out("bc", i, -1, m, repeat)

\* ------------------------------------------------------------ _receive
NoReply == [some |-> FALSE, idx |-> 0, nf |-> 0, tag |-> "", f2 |-> 0,
            f3 |-> <<>>, f4 |-> <<>>]
Reply(d) == [some |-> TRUE, idx |-> d.idx, nf |-> d.nf, tag |-> d.tag,
             f2 |-> d.f2, f3 |-> d.f3, f4 |-> d.f4]

\* Variant of Stale that lets a repeated index through.
StaleBelow(index, misoIndex) == index < misoIndex
\* The index test of _receive.
Stale(index, misoIndex) == index <= misoIndex

\* _receive(slave) over the datagrams `burst` that reach the MISO socket
\* before it times out: datagrams with an unparsable or stale index are
\* skipped, the first fresh one is returned and its index stored.
RECURSIVE Receive(_, _)
Receive(misoIndex, burst) ==
    IF burst = <<>> THEN [reply |-> NoReply, misoIndex |-> misoIndex]
    ELSE LET d == Head(burst) IN
         IF d.idx = Bad THEN Receive(misoIndex, Tail(burst))
         ELSE IF Stale(d.idx, misoIndex) THEN Receive(misoIndex, Tail(burst))
         ELSE IF d.nf \in 2..4 THEN [reply |-> Reply(d), misoIndex |-> d.idx]
         ELSE IF d.nf = 5
              THEN IF d.f2 = Bad THEN Receive(misoIndex, Tail(burst))
                   ELSE [reply |-> Reply(d), misoIndex |-> d.idx]
         ELSE [reply |-> NoReply, misoIndex |-> misoIndex]

\* ------------------------------------------------------------ telemetry
\* The parsing loop of one CSV field: the first min(len, maxFans) tokens are
\* converted, the rest of the pre-allocated vector stays 0.
CsvOk(csv) == \A k \in 1..Min(Len(csv), MaxFans) : csv[k] # Bad
\* Variant of CsvParse that keeps every token, however many.
CsvParseAll(csv) == csv
CsvParse(csv) == [k \in 1..MaxFans |-> IF k <= Len(csv) THEN csv[k] ELSE 0]

\* reply[-2] and reply[-1] of the tuple _receive built.
RpmField(r) == IF r.nf = 5 THEN r.f3
               ELSE IF r.nf = 4 THEN <<r.f2>>
               ELSE <<Bad>>
DcField(r) == IF r.nf = 5 THEN r.f4
              ELSE IF r.nf = 4 THEN r.f3
              ELSE <<r.f2>>

\* Variant of NewData that accepts a repeated data index.
NewDataOrSame(receivedDataIndex, dataIndex) == receivedDataIndex >= dataIndex
\* The redundancy test of the 'T' branch.
NewData(receivedDataIndex, dataIndex) == receivedDataIndex > dataIndex

\* The 'T' branch of the steady-state loop (an exception leaves the cycle).
ApplyTelemetry(sl, r) ==
    IF r.nf < 3 \/ r.f2 = Bad THEN sl
    ELSE IF NewData(r.f2, sl.dataIndex)
         THEN LET s1 == [sl EXCEPT !.dataIndex = r.f2] IN
              IF CsvOk(RpmField(r)) /\ CsvOk(DcField(r))
              THEN SetMISO(s1, [rpms |-> CsvParse(RpmField(r)),
                                dcs |-> CsvParse(DcField(r))])
              ELSE s1
         ELSE sl

\* ------------------------------------------------------------ environment
\* Datagrams a device can put on its worker's MISO socket.
TagOnly(idx, tag) == [idx |-> idx, nf |-> 2, tag |-> tag, f2 |-> 0,
                      f3 |-> <<>>, f4 |-> <<>>]
Telemetry(idx, di, rpm, dc) == [idx |-> idx, nf |-> 5, tag |-> "T", f2 |-> di,
                                f3 |-> rpm, f4 |-> dc]
ShortTelemetry(idx, di) == [idx |-> idx, nf |-> 3, tag |-> "T", f2 |-> di,
                            f3 |-> <<>>, f4 |-> <<>>]
LongDatagram(idx) == [idx |-> idx, nf |-> 6, tag |-> "T", f2 |-> 0,
                      f3 |-> <<>>, f4 |-> <<>>]
RpmCSVs == {<<1>>, <<2, 1, 2, 1>>, <<Bad>>}
DcCSVs == {<<1, 2, 1, 2>>}
Telemetries ==
    {Telemetry(idx, di, rpm, dc) :
         idx \in {2, MaxSeq + 1}, di \in {1, MaxSeq}, rpm \in RpmCSVs,
         dc \in DcCSVs}
    \cup {ShortTelemetry(MaxSeq, MaxSeq)}
\* What one bounded receive wait can see: nothing, one datagram, or a
\* datagram behind one that _receive skips.
Skipped == {TagOnly(Bad, "P"), TagOnly(1, "P")}
\* The replies that drive the connection state machine: none, or one tag-only
\* datagram.
ProtoBursts == {<<>>} \cup {<<TagOnly(idx, tag)>> :
                               idx \in 1..MaxSeq,
                               tag \in {"H", "K", "P", "I"}}
\* The replies of a device that acknowledges handshakes and is then silent.
QuietBursts == {<<>>, <<TagOnly(1, "H")>>}
\* The replies of a device that reports telemetry.
DataBursts == {<<>>, <<TagOnly(1, "H")>>, <<LongDatagram(MaxSeq)>>}
              \cup {<<d>> : d \in Telemetries}
              \cup {<<d1, Telemetry(MaxSeq + 1, MaxSeq, <<1>>, <<1, 2, 1, 2>>)>> :
                       d1 \in Skipped}

\* ------------------------------------------------------------ the worker
\* FCSlave.getMOSI(): whether a mailbox command is waiting.
HasMOSI(sl) == sl.mosiQ # <<>>

\* The message the steady-state cycle builds for a fetched duty-cycle command.
CmdMessage(cmd) ==
    IF cmd.code = MOSI_DC THEN Msg("S|D", cmd.a) ELSE Msg("S|F", cmd.a)

\* Variant of FlashMismatch under which the worker never looks at versions.
FlashMismatchNever(sl) == FALSE
\* The version check at the head of the CONNECTED branch.
FlashMismatch(sl) == flashFlag /\ sl.version # targetVersion

\* Variant of Branch under which a worker also connects a device nobody added.
BranchEager(status) ==
    IF status \in {"KNOWN", "AVAILABLE"} THEN "known"
    ELSE IF status = "CONNECTED" THEN "connected"
    ELSE "idle"
\* The branch of the worker's loop that the status read at its head selects.
Branch(status) ==
    IF status = "KNOWN" THEN "known"
    ELSE IF status = "CONNECTED" THEN "connected"
    ELSE "idle"

\* Loop head, status KNOWN: the first handshake descriptor.
WorkerHandshake(i, oks) ==
    /\ i \in 1..Len(slaves)
    /\ wk[i].pc = "top"
    /\ Branch(slaves[i].status) = "known"
    /\ \E ok \in oks :
         LET r == Send(slaves[i], i, wk[i].MHSK, TRUE, ok) IN
         /\ slaves' = SetSlave(i, r.sl)
         /\ sent' = <<r.out>>
         /\ wk' = SetWk(i, [wk[i] EXCEPT !.pc = "hsk", !.tries = HskTries,
                                         !.advertised = wk[i].MHSK.a[1],
                                         !.hskSent = 1, !.hskWaits = 0,
                                         !.hskQuiet = TRUE,
                                         !.script = IF @ = 1 /\ ok THEN 2
                                                    ELSE 0])
    /\ UNCHANGED <<macToIndexMap, flashFlag, targetVersion, flashMessage,
                   lis, pub, emitted, slavesLock, stopped, inp, bc,
                   slaveUpdateQueue, packetLoss,
                   joined, recovery>>

\* Loop head, status CONNECTED, update pending and version mismatch.
WorkerReboot(i, oks) ==
    /\ i \in 1..Len(slaves)
    /\ wk[i].pc = "top"
    /\ Branch(slaves[i].status) = "connected"
    /\ FlashMismatch(slaves[i])
    /\ \E ok \in oks :
         LET r == Send(slaves[i], i, Msg("R", <<>>), FALSE, ok) IN
         /\ slaves' = SetSlave(i, SetSlaveStatus(r.sl, "DISCONNECTED", <<>>))
         /\ sent' = <<r.out>>
         /\ slaveUpdateQueue' = PutUpdate(i, slaves'[i])
    /\ wk' = SetWk(i, [wk[i] EXCEPT !.script = 0])
    /\ UNCHANGED <<macToIndexMap, flashFlag, targetVersion, flashMessage,
                   lis, pub, emitted, slavesLock, stopped, inp, bc,
                   packetLoss,
                   joined, recovery>>

\* Variant of Remembered that falls back to a ping when the mailbox is empty.
RememberedOrPing(has, cmd, message) == IF has THEN CmdMessage(cmd) ELSE Ping
\* The local `message` after the mailbox was looked at: the message built
\* for a fetched duty-cycle command, or what it was.
Remembered(has, cmd, message) == IF has THEN CmdMessage(cmd) ELSE message

\* Loop head, status CONNECTED: fetch at most one command and transmit.
WorkerCycleTo(i, oks, cap) ==
    /\ i \in 1..Len(slaves)
    /\ wk[i].pc = "top"
    /\ Branch(slaves[i].status) = "connected"
    /\ ~FlashMismatch(slaves[i])
    /\ slaves[i].mosiIndex < cap
    /\ wk[i].timeouts <= MaxTimeouts + 1
    /\ \E ok \in oks :
         LET sl == slaves[i]
             has == HasMOSI(sl)
             cmd == Head(sl.mosiQ)
             s1 == IF has THEN [sl EXCEPT !.mosiQ = Tail(sl.mosiQ)] ELSE sl
             w0 == IF has \/ ~ok THEN [wk[i] EXCEPT !.script = 0] ELSE wk[i]
         IN
         IF has /\ cmd.code \in {MOSI_DISCONNECT, MOSI_REBOOT}
         THEN /\ slaves' = SetSlave(i, s1)
              /\ IF ok
                 THEN /\ sent' = <<SendToListener(s1, i,
                             Msg(IF cmd.code = MOSI_DISCONNECT THEN "X" ELSE "R",
                                 <<>>), 2)>>
                      /\ wk' = SetWk(i, [w0 EXCEPT !.pc = "conn"])
                 ELSE /\ sent' = <<>>
                      /\ wk' = SetWk(i, w0)
         ELSE LET m == Remembered(has, cmd, wk[i].message)
                  r == Send(s1, i, m, FALSE, ok)
              IN /\ slaves' = SetSlave(i, r.sl)
                 /\ sent' = <<r.out>>
                 /\ wk' = SetWk(i, [w0 EXCEPT !.pc = "conn", !.message = m])
    /\ UNCHANGED <<macToIndexMap, flashFlag, targetVersion, flashMessage,
                   lis, pub, emitted, slavesLock, stopped, inp, bc,
                   slaveUpdateQueue, packetLoss,
                   joined, recovery>>

WorkerCycle(i, oks) == WorkerCycleTo(i, oks, MaxIndex)

\* Variant of HskRetry that allows one retry too many.
HskRetryOffByOne(tries) == tries >= 0
\* The test of the handshake loop on a reply that is neither 'H' nor 'K'.
HskRetry(tries) == tries > 0

\* Variant of AckPending under which 'K' counts as no acknowledgment at all.
AckPendingNever(tag) == FALSE
\* The handshake loop's test for "acknowledged, give the device time".
AckPending(tag) == tag = "K"

\* The tail of the handshake loop's body, reached by every pass that neither
\* breaks nor continues: both sockets are closed, two new ones are bound to
\* ports of the system's choice (`port`), MHSK is made again for them and
\* failedHSKs is cleared.
ResetSockets(w, port) ==
    [w EXCEPT !.sock = port, !.MHSK = MakeHSK(port), !.failedHSKs = 0]

\* The handshake loop after one _receive that saw `burst`; `port` is what
\* the system binds new sockets to.
WorkerHskRecvBinding(i, burst, ok, port) ==
    /\ i \in 1..Len(slaves)
    /\ wk[i].pc = "hsk"
    /\ LET rc == Receive(slaves[i].misoIndex, burst)
           r == rc.reply
           s0 == [slaves[i] EXCEPT !.misoIndex = rc.misoIndex]
           quiet == wk[i].hskQuiet /\ burst = <<>>
           w0 == [wk[i] EXCEPT !.hskQuiet = quiet,
                               !.hskWaits = IF quiet THEN @ + 1 ELSE 0,
                               !.hskSent = IF quiet THEN @ ELSE 0]
       IN
       IF r.some /\ r.tag = "H"
       THEN /\ slaves' = SetSlave(i, SetSlaveStatus(s0, "CONNECTED", <<>>))
            /\ wk' = SetWk(i, [w0 EXCEPT !.pc = "top", !.tryBuffer = TRUE,
                                         !.tries = 0, !.hskSent = 0,
                                         !.hskWaits = 0,
                                         !.script = IF @ = 2 THEN 3 ELSE 0])
            /\ sent' = <<>>
            /\ slaveUpdateQueue' = PutUpdate(i, slaves'[i])
       ELSE IF r.some /\ AckPending(r.tag)
       THEN /\ slaves' = SetSlave(i, s0)
            /\ wk' = SetWk(i, w0)
            /\ sent' = <<>>
            /\ UNCHANGED slaveUpdateQueue
       ELSE IF HskRetry(w0.tries)
       THEN LET sd == Send(s0, i, w0.MHSK, TRUE, ok) IN
            /\ slaves' = SetSlave(i, sd.sl)
            /\ wk' = SetWk(i, ResetSockets(
                     [w0 EXCEPT !.tries = @ - 1,
                                !.advertised = w0.MHSK.a[1],
                                !.hskSent = IF quiet THEN @ + 1 ELSE 0,
                                !.script = IF ok THEN @ ELSE 0], port))
            /\ sent' = <<sd.out>>
            /\ UNCHANGED slaveUpdateQueue
       ELSE IF w0.failedHSKs = 0
       THEN LET sd == Send(s0, i, Msg("X", <<>>), FALSE, ok) IN
            /\ slaves' = SetSlave(i, SetSlaveStatus(sd.sl, "DISCONNECTED", <<>>))
            /\ wk' = SetWk(i, [w0 EXCEPT !.pc = "top", !.tries = 0,
                                         !.script = 0])
            /\ sent' = <<sd.out>>
            /\ slaveUpdateQueue' = PutUpdate(i, slaves'[i])
       ELSE /\ slaves' = SetSlave(i, s0)
            /\ wk' = SetWk(i, ResetSockets(w0, port))
            /\ sent' = <<>>
            /\ UNCHANGED slaveUpdateQueue
    /\ UNCHANGED <<macToIndexMap, flashFlag, targetVersion, flashMessage,
                   lis, pub, emitted, slavesLock, stopped, inp, bc,
                   packetLoss,
                   joined, recovery>>

\* The same with the system giving the new sockets the ports of the two
\* just closed.
WorkerHskRecvOn(i, burst, ok) ==
    i \in 1..Len(slaves) /\ WorkerHskRecvBinding(i, burst, ok, wk[i].sock)

WorkerHskRecv(i, bursts, oks) ==
    \E burst \in bursts, ok \in oks : WorkerHskRecvOn(i, burst, ok)

\* The tests on the missed-reply counter after it was incremented, and the
\* branch they select: 'Q' probe, nothing, 'Y' reconnect probe, or 'X'.
ProbeDue(timeouts) == timeouts = MaxTimeouts - 1
\* Variant of StillPatient that tolerates one more missed reply.
StillPatientOneMore(timeouts) == timeouts <= MaxTimeouts
StillPatient(timeouts) == timeouts < MaxTimeouts
\* Variant of TimeoutAction that never gives the device up.
TimeoutActionPatient(timeouts, tryBuffer) ==
    IF ProbeDue(timeouts) THEN "Q"
    ELSE IF StillPatient(timeouts) THEN "wait"
    ELSE IF tryBuffer THEN "Y"
    ELSE "wait"
\* Variant of TimeoutAction without the reconnect probe.
TimeoutActionNoProbe(timeouts, tryBuffer) ==
    IF ProbeDue(timeouts) THEN "Q"
    ELSE IF StillPatient(timeouts) THEN "wait"
    ELSE "X"
TimeoutAction(timeouts, tryBuffer) ==
    IF ProbeDue(timeouts) THEN "Q"
    ELSE IF StillPatient(timeouts) THEN "wait"
    ELSE IF tryBuffer THEN "Y"
    ELSE "X"

\* The steady-state cycle after its _receive saw `burst`.
WorkerConnRecvOn(i, burst, ok) ==
    /\ i \in 1..Len(slaves)
    /\ wk[i].pc = "conn"
    /\ LET rc == Receive(slaves[i].misoIndex, burst)
           r == rc.reply
           s0 == [slaves[i] EXCEPT !.misoIndex = rc.misoIndex]
           w == wk[i]
       IN
       IF r.some
       THEN LET w1 == [w EXCEPT !.pc = "top", !.timeouts = 0, !.script = 0] IN
            /\ wk' = SetWk(i, w1)
            /\ IF r.tag = "T"
               THEN /\ slaves' = SetSlave(i, ApplyTelemetry(s0, r))
                    /\ sent' = <<>>
                    /\ UNCHANGED slaveUpdateQueue
               ELSE IF r.tag = "I"
               THEN /\ slaves' = SetSlave(i, [s0 EXCEPT !.misoIndex = 0])
                    /\ sent' = <<>>
                    /\ UNCHANGED slaveUpdateQueue
               ELSE IF r.tag = "P"
               THEN LET sd == Send(s0, i, Ping, FALSE, ok) IN
                    /\ slaves' = SetSlave(i, sd.sl)
                    /\ sent' = <<sd.out>>
                    /\ UNCHANGED slaveUpdateQueue
               ELSE /\ slaves' = SetSlave(i, s0)
                    /\ sent' = <<>>
                    /\ UNCHANGED slaveUpdateQueue
       ELSE LET t == w.timeouts + 1
                act == TimeoutAction(t, w.tryBuffer)
                w1 == [w EXCEPT !.pc = "top", !.timeouts = t,
                                !.script = IF @ >= 3 /\ burst = <<>>
                                                /\ (act # "wait" => ok)
                                           THEN @ + 1 ELSE 0]
            IN
            IF act = "Q"
            THEN LET sd == Send(s0, i, Msg("Q", <<>>), FALSE, ok) IN
                 /\ slaves' = SetSlave(i, sd.sl)
                 /\ wk' = SetWk(i, w1)
                 /\ sent' = <<sd.out>>
                 /\ UNCHANGED slaveUpdateQueue
            ELSE IF act = "wait"
            THEN /\ slaves' = SetSlave(i, s0)
                 /\ wk' = SetWk(i, w1)
                 /\ sent' = <<>>
                 /\ UNCHANGED slaveUpdateQueue
            ELSE IF act = "Y"
            THEN LET sd == Send(s0, i, Msg("Y", <<>>), FALSE, ok) IN
                 /\ slaves' = SetSlave(i, sd.sl)
                 /\ wk' = SetWk(i, [w1 EXCEPT !.tryBuffer = FALSE])
                 /\ sent' = <<sd.out>>
                 /\ UNCHANGED slaveUpdateQueue
            ELSE IF ok
            THEN /\ sent' = <<SendToListener(s0, i, Msg("X", <<>>), 1)>>
                 /\ wk' = SetWk(i, [w1 EXCEPT !.timeouts = 0])
                 /\ slaves' = SetSlave(i, SetSlaveStatus(s0, "DISCONNECTED", <<>>))
                 /\ slaveUpdateQueue' = PutUpdate(i, slaves'[i])
            ELSE /\ sent' = <<>>
                 /\ wk' = SetWk(i, w1)
                 /\ slaves' = SetSlave(i, s0)
                 /\ UNCHANGED slaveUpdateQueue
    /\ UNCHANGED <<macToIndexMap, flashFlag, targetVersion, flashMessage,
                   lis, pub, emitted, slavesLock, stopped, inp, bc,
                   packetLoss,
                   joined, recovery>>

WorkerConnRecv(i, bursts, oks) ==
    \E burst \in bursts, ok \in oks : WorkerConnRecvOn(i, burst, ok)

\* ------------------------------------------------------------ the listener
\* Discovery datagrams: kind|passcode|mac|type|misoPort|mosiPort|version.
Beacon(kind, pass, mac, type, misoP, mosiP, version) ==
    [kind |-> kind, pass |-> pass, mac |-> mac, type |-> type,
     misoP |-> misoP, mosiP |-> mosiP, version |-> version]
PortPairs == {<<1, PortMax>>, <<0, 1>>, <<PortMax, PortMax + 1>>}
\* The datagrams the listener may read: announce beacons with every port
\* pair and version, bootloader beacons with every version, and one error
\* report and one datagram of another deployment per kind and MAC (the
\* fields after those the listener tests do not matter to it).
Beacons ==
    {Beacon("A", Passcode, mac, "N", pp[1], pp[2], v) :
        mac \in MACS \cup {ShortMAC}, pp \in PortPairs, v \in Versions}
    \cup {Beacon("B", Passcode, mac, "N", 1, PortMax, v) :
        mac \in MACS \cup {ShortMAC}, v \in Versions}
    \cup {Beacon(kind, pass, mac, type, 1, PortMax, "v1") :
        kind \in {"A", "B"}, mac \in MACS \cup {ShortMAC},
        pass \in {Passcode, "other"}, type \in {"N", "E"}}
BeaconsOf(macs) == {d \in Beacons : d.mac \in macs}
\* The beacons of devices that announce themselves correctly.
Announces == {d \in Beacons : /\ d.kind = "A" /\ d.pass = Passcode
                              /\ d.type = "N" /\ d.mac \in MACS
                              /\ d.misoP = 1 /\ d.version = "v1"}
SenderIP == "ip1"

\* Variant of GetSlaveIndexByMAC that never finds a MAC.
GetSlaveIndexByMACNone(mac) == 0
\* _getSlaveIndexByMAC: 0 stands for None.
GetSlaveIndexByMAC(mac) ==
    IF mac \in DOMAIN macToIndexMap THEN macToIndexMap[mac] ELSE 0

PortBad(p) == p <= 0 \/ p > PortMax
\* Variant of MacBad that accepts a MAC of any length.
MacBadNever(mac) == FALSE
MacBad(mac) == MacLen(mac) # MacLength
\* Variant of Promotable that also re-handshakes a CONNECTED device.
PromotableAlsoConnected(status) ==
    status \in {"DISCONNECTED", "UPDATING", "CONNECTED"}
\* Statuses the listener promotes to KNOWN on a device-announce beacon.
Promotable(status) == status \in {"DISCONNECTED", "UPDATING"}

ListenerReply(m) == Out("reply", 0, -1, m, 1)
LaunchMessage == Msg("L", <<>>)
\* self.flashMessage = None
NoFlashMessage == Msg("None", <<>>)
RebootMessage == Msg("R", <<>>)
\* The listener between datagrams; warned is history, the warning its last
\* step printed: "discarded" for a datagram dropped, "skipped" for a status
\* update given up for want of slavesLock, "" for none.
NoPending ==
    [pend |-> FALSE, index |-> 0, netargs |-> <<>>, warned |-> "",
     alive |-> TRUE]
Heeded == [lis EXCEPT !.warned = ""]
\* setSlaveStatus as called by the listener: the warning of its else branch.
LockWarning == IF Acquired THEN "" ELSE "skipped"

\* Variant of NextIndex that is one short.
NextIndexShort(size) == size
\* index = len(self.slaves): the position of the record about to be appended
\* (positions are counted from 1 here, from 0 in the program).
NextIndex(size) == size + 1

\* Variant of RebootDue under which the listener never redirects a device.
RebootDueNever(version) == FALSE
\* The listener's test for a known MAC: update pending and another version.
RebootDue(version) == flashFlag /\ version # targetVersion

\* Variant of AppendSlave that puts the new record first.
AppendSlaveFront(list, sl) == <<sl>> \o list
\* self.slaves.append(FCSlave(...))
AppendSlave(list, sl) == Append(list, sl)

\* An announce beacon ('A', type 'N') that passed validation.
ListenerAnnounce(d) ==
    LET index == GetSlaveIndexByMAC(d.mac) IN
    IF index # 0
    THEN IF RebootDue(d.version)
         THEN /\ sent' = <<ListenerReply(RebootMessage)>>
              /\ lis' = Heeded
              /\ UNCHANGED <<slaves, macToIndexMap, wk, slaveUpdateQueue>>
         ELSE IF Promotable(slaves[index].status)
         THEN /\ lis' = [pend |-> TRUE, index |-> index,
                         netargs |-> <<SenderIP, d.misoP, d.mosiP, d.version>>,
                         warned |-> "", alive |-> TRUE]
              /\ sent' = <<>>
              /\ UNCHANGED <<slaves, macToIndexMap, wk, slaveUpdateQueue>>
         ELSE /\ sent' = <<>>
              /\ lis' = Heeded
              /\ UNCHANGED <<slaves, macToIndexMap, wk, slaveUpdateQueue>>
    ELSE /\ slaves' = AppendSlave(slaves,
                NewSlave(d.mac, "AVAILABLE", DefaultFans, d.version, SenderIP,
                         d.misoP, d.mosiP))
         /\ macToIndexMap' = [m \in DOMAIN macToIndexMap \cup {d.mac} |->
                IF m = d.mac THEN NextIndex(Len(slaves)) ELSE macToIndexMap[m]]
         /\ wk' = Append(wk, NewWorker)
         /\ sent' = <<>>
         /\ lis' = Heeded
         /\ UNCHANGED slaveUpdateQueue

\* A bootloader beacon ('B', type 'N').  bytearray(self.flashMessage, 'ascii')
\* raises on a message that is still None; the datagram is then dropped by
\* the loop's handler like one that could not be parsed.
ListenerBoot(d) ==
    LET index == GetSlaveIndexByMAC(d.mac)
        first == ListenerReply(IF ~flashFlag THEN LaunchMessage ELSE flashMessage)
    IN
    IF flashFlag /\ flashMessage = NoFlashMessage
    THEN /\ sent' = <<>>
         /\ lis' = [lis EXCEPT !.warned = "discarded"]
         /\ UNCHANGED <<slaves, macToIndexMap, wk, slaveUpdateQueue>>
    ELSE IF index # 0
    THEN /\ slaves' = SetSlave(index,
                SetSlaveStatus([slaves[index] EXCEPT !.version = d.version],
                               "UPDATING", <<>>))
         /\ wk' = SetWk(index, [wk[index] EXCEPT !.script = 0])
         /\ sent' = <<first>>
         /\ lis' = [lis EXCEPT !.warned = LockWarning]
         /\ slaveUpdateQueue' = PutUpdate(index, slaves'[index])
         /\ UNCHANGED macToIndexMap
    ELSE /\ sent' = <<first, ListenerReply(LaunchMessage)>>
         /\ lis' = Heeded
         /\ UNCHANGED <<slaves, macToIndexMap, wk, slaveUpdateQueue>>

\* Whether an announce beacon passes the port and MAC-length checks.
AnnounceValid(d) == ~(PortBad(d.misoP) \/ PortBad(d.mosiP) \/ MacBad(d.mac))

\* A datagram dropped with a warning: wrong passcode, or an exception raised
\* while it was parsed; the loop goes on to the next datagram.
ListenerDiscard ==
    /\ sent' = <<>>
    /\ lis' = [lis EXCEPT !.warned = "discarded"]
    /\ UNCHANGED <<slaves, macToIndexMap, wk, slaveUpdateQueue>>

\* An error report of a device (type 'E'): printed, nothing else.
ListenerErrorReport ==
    /\ sent' = <<>>
    /\ lis' = Heeded
    /\ UNCHANGED <<slaves, macToIndexMap, wk, slaveUpdateQueue>>

\* One datagram d read from the listener socket, up to the status update it
\* may request.
ListenerHandle(d) ==
    /\ lis.alive
    /\ ~lis.pend
    /\ IF d.pass # Passcode
       THEN ListenerDiscard
       ELSE IF d.kind = "A"
       THEN IF d.type = "N"
            THEN IF AnnounceValid(d)
                 THEN ListenerAnnounce(d)
                 ELSE ListenerDiscard
            ELSE ListenerErrorReport
       ELSE IF d.type = "N"
            THEN ListenerBoot(d)
            ELSE ListenerErrorReport
    /\ UNCHANGED <<flashFlag, targetVersion, flashMessage, pub, emitted,
                   slavesLock, stopped, inp, bc, packetLoss,
                   joined, recovery>>

ListenerRecv(beacons) == \E d \in beacons : ListenerHandle(d)

\* The setSlaveStatus(KNOWN, netargs) that follows the listener's status test.
ListenerSetKnown ==
    /\ lis.pend
    /\ slaves' = SetSlave(lis.index,
            SetSlaveStatus(slaves[lis.index], "KNOWN", lis.netargs))
    /\ wk' = SetWk(lis.index,
            [wk[lis.index] EXCEPT !.script = IF @ = 1 THEN 1 ELSE 0])
    /\ lis' = [NoPending EXCEPT !.warned = LockWarning]
    /\ sent' = <<>>
    /\ slaveUpdateQueue' = PutUpdate(lis.index, slaves'[lis.index])
    /\ UNCHANGED <<macToIndexMap, flashFlag, targetVersion, flashMessage,
                   pub, emitted, slavesLock, stopped, inp, bc, packetLoss,
                   joined, recovery>>

\* ------------------------------------------------------------ the router
\* One pass of _inputRoutine's loop takes one vector off a pipe and hands it
\* to its handler.  inp.last is history: how the last vector ended --
\* "handled", "warned" (KeyError: unknown opcode) or "error" (any other
\* exception of the handler).
Took(outcome) == [inp EXCEPT !.last = outcome]
\* inp.at is the statement the thread has reached: "loop" between vectors,
\* "flag" and "message" inside the start-firmware-update handler, of which
\* inp.D is the vector (kept afterwards as history).
NoVector == [n |-> 0, version |-> NoVersion, file |-> 0, size |-> 0]
Ready == inp.alive /\ inp.at = "loop"

\* FCSlave.setMOSI(command, False): a full mailbox drops its oldest command
\* and counts the drop; the caller never waits.
SetMOSI(sl, cmd) ==
    IF Len(sl.mosiQ) >= MaxQueue
    THEN [sl EXCEPT !.mosiQ = Append(Tail(sl.mosiQ), cmd), !.drops = @ + 1]
    ELSE [sl EXCEPT !.mosiQ = Append(sl.mosiQ, cmd)]

Cmd(code, a) == [code |-> code, a |-> a]

\* The drop counters stay within the bound of the model.
DropsBelow(list) == \A k \in 1..Len(list) : list[k].drops < MaxDrops

\* Variant of Addable without the status test.
AddableAlways(status) == TRUE
\* add(targetIndex): only an AVAILABLE device is marked KNOWN.
Addable(status) == status = "AVAILABLE"
Add(sl) == IF Addable(sl.status) THEN SetSlaveStatus(sl, "KNOWN", <<>>) ELSE sl

\* CMD_ADD with target ALL.
CmdAddAll ==
    /\ Ready
    /\ slaves # <<>>
    /\ slaves' = [k \in 1..Len(slaves) |-> Add(slaves[k])]
    /\ LET added == {k \in 1..Len(slaves) : Addable(slaves[k].status)} IN
       slaveUpdateQueue' = IF added = {} THEN slaveUpdateQueue
                           ELSE LET k == CHOOSE x \in added :
                                            \A y \in added : y <= x
                                IN PutUpdate(k, slaves'[k])
    /\ sent' = <<>>
    /\ inp' = Took("handled")
    /\ UNCHANGED <<macToIndexMap, wk, flashFlag, targetVersion, flashMessage,
                   lis, pub, emitted, slavesLock, stopped, bc, packetLoss,
                   joined, recovery>>

\* A target position the registry does not hold: self.slaves[index] raises.
Missing(list, index) == index \notin 1..Len(list)

\* The loop "for index in D[CMD_I_TGT_OFFSET:]: self.add(index)" over the
\* targets T: the devices as the loop leaves them, the last state vector
\* put, and whether the loop ended in an exception.
\* Variant of AddEach that passes over a missing position and goes on.
RECURSIVE AddEachSkipping(_, _, _)
AddEachSkipping(list, upd, T) ==
    IF T = <<>> THEN [slaves |-> list, upd |-> upd, raised |-> FALSE]
    ELSE IF Missing(list, Head(T)) THEN AddEachSkipping(list, upd, Tail(T))
    ELSE LET k == Head(T)
             sl == Add(list[k])
         IN AddEachSkipping([list EXCEPT ![k] = sl],
                            IF Addable(list[k].status) /\ Acquired
                            THEN GetSlaveStateVector(k, sl) ELSE upd,
                            Tail(T))
RECURSIVE AddEach(_, _, _)
AddEach(list, upd, T) ==
    IF T = <<>> THEN [slaves |-> list, upd |-> upd, raised |-> FALSE]
    ELSE IF Missing(list, Head(T))
    THEN [slaves |-> list, upd |-> upd, raised |-> TRUE]
    ELSE LET k == Head(T)
             sl == Add(list[k])
         IN AddEach([list EXCEPT ![k] = sl],
                    IF Addable(list[k].status) /\ Acquired
                    THEN GetSlaveStateVector(k, sl) ELSE upd,
                    Tail(T))

\* CMD_ADD with target SELECTED and the index list T.
CmdAddSelectedOn(T) ==
    /\ Ready
    /\ LET r == AddEach(slaves, slaveUpdateQueue, T) IN
       /\ slaves' = r.slaves
       /\ slaveUpdateQueue' = r.upd
       /\ inp' = Took(IF r.raised THEN "error" ELSE "handled")
    /\ sent' = <<>>
    /\ UNCHANGED <<macToIndexMap, wk, flashFlag, targetVersion, flashMessage,
                   lis, pub, emitted, slavesLock, stopped, bc, packetLoss,
                   joined, recovery>>

CmdAddSelected(targets) == \E T \in targets : CmdAddSelectedOn(T)

\* CMD_FUPDATE_START run to its end with no other thread in between: target
\* version, flag, then the flash message.
Firmwares == {[version |-> "v2", file |-> 1, size |-> 1]}
CmdFUpdateStart ==
    /\ Ready
    /\ \E f \in Firmwares :
         /\ targetVersion' = f.version
         /\ flashFlag' = TRUE
         /\ flashMessage' = Msg("U", <<f.file, f.size>>)
    /\ sent' = <<>>
    /\ inp' = Took("handled")
    /\ UNCHANGED <<slaves, macToIndexMap, wk, lis, pub, emitted, slavesLock,
                   stopped, bc, slaveUpdateQueue, packetLoss,
                   joined, recovery>>

\* CMD_FUPDATE_STOP
CmdFUpdateStop ==
    /\ Ready
    /\ flashFlag
    /\ flashFlag' = FALSE
    /\ sent' = <<>>
    /\ inp' = Took("handled")
    /\ UNCHANGED <<slaves, macToIndexMap, wk, targetVersion, flashMessage,
                   lis, pub, emitted, slavesLock, stopped, bc,
                   slaveUpdateQueue, packetLoss,
                   joined, recovery>>

\* CMD_FUPDATE_START statement by statement, other threads running in
\* between.  D.n is the number of fields the vector has after its opcode:
\* version, filename, filesize.
FlashMessageOf(D) == Msg("U", <<D.file, D.size>>)
\* The except clause: the stop handler, then the exception goes to the loop.
FUpdateCanceled ==
    /\ flashFlag' = FALSE
    /\ inp' = [inp EXCEPT !.last = "error", !.at = "loop"]

\* self.targetVersion = D[s.CMD_I_FU_VERSION]
FUpdateStartVersion(vectors) ==
    /\ Ready
    /\ \E D \in vectors :
         IF D.n >= 1
         THEN /\ targetVersion' = D.version
              /\ inp' = [inp EXCEPT !.at = "flag", !.D = D]
              /\ UNCHANGED flashFlag
         ELSE /\ flashFlag' = FALSE
              /\ inp' = [inp EXCEPT !.last = "error", !.D = D]
              /\ UNCHANGED targetVersion
    /\ sent' = <<>>
    /\ UNCHANGED <<slaves, macToIndexMap, wk, flashMessage, lis, pub, emitted,
                   slavesLock, stopped, bc, slaveUpdateQueue, packetLoss,
                   joined, recovery>>

\* filename = D[...]; filesize = D[...]; self.flashFlag = True
FUpdateStartFlag ==
    /\ inp.alive /\ inp.at = "flag"
    /\ IF inp.D.n >= 3
       THEN /\ flashFlag' = TRUE
            /\ inp' = [inp EXCEPT !.at = "message"]
       ELSE FUpdateCanceled
    /\ sent' = <<>>
    /\ UNCHANGED <<slaves, macToIndexMap, wk, targetVersion, flashMessage, lis,
                   pub, emitted, slavesLock, stopped, bc, slaveUpdateQueue,
                   packetLoss, joined, recovery>>

\* self.flashMessage = "U|...|filename|filesize"
FUpdateStartMessage ==
    /\ inp.alive /\ inp.at = "message"
    /\ flashMessage' = FlashMessageOf(inp.D)
    /\ inp' = [inp EXCEPT !.last = "handled", !.at = "loop"]
    /\ sent' = <<>>
    /\ UNCHANGED <<slaves, macToIndexMap, wk, flashFlag, targetVersion, lis,
                   pub, emitted, slavesLock, stopped, bc, slaveUpdateQueue,
                   packetLoss, joined, recovery>>

\* Variant of DcEnqueue that leaves a full mailbox as it is.
DcEnqueueFull(sl, cmd) ==
    IF sl.status = "CONNECTED" /\ Len(sl.mosiQ) < MaxQueue
    THEN SetMOSI(sl, cmd) ELSE sl
\* The enqueue both duty-cycle handlers make for one device: only a
\* CONNECTED device takes the command.
DcEnqueue(sl, cmd) ==
    IF sl.status = "CONNECTED" THEN SetMOSI(sl, cmd) ELSE sl

\* CTL_DC_SINGLE with target ALL: every CONNECTED device is enqueued.
DutyCycles == {1}
CtlDcSingleAllOn(dc) ==
    /\ Ready
    /\ DropsBelow(slaves)
    /\ slaves' = [k \in 1..Len(slaves) |->
                     DcEnqueue(slaves[k], Cmd(MOSI_DC, <<dc>>))]
    /\ sent' = <<>>
    /\ inp' = Took("handled")
    /\ UNCHANGED <<macToIndexMap, wk, flashFlag, targetVersion, flashMessage,
                   lis, pub, emitted, slavesLock, stopped, bc,
                   slaveUpdateQueue, packetLoss,
                   joined, recovery>>

CtlDcSingleAll == \E dc \in DutyCycles : CtlDcSingleAllOn(dc)

\* The loop "while i < L: slave = self.slaves[C[i]] ..." of CTL_DC_SINGLE
\* with target SELECTED over the target positions T.
RECURSIVE DcEach(_, _, _)
DcEach(list, cmd, T) ==
    IF T = <<>> THEN [slaves |-> list, raised |-> FALSE]
    ELSE IF Missing(list, Head(T)) THEN [slaves |-> list, raised |-> TRUE]
    ELSE DcEach([list EXCEPT ![Head(T)] = DcEnqueue(@, cmd)], cmd, Tail(T))

\* CTL_DC_SINGLE with target SELECTED, the index list T and duty cycle dc.
CtlDcSingleSelectedOn(T, dc) ==
    /\ Ready
    /\ DropsBelow(slaves)
    /\ LET r == DcEach(slaves, Cmd(MOSI_DC, <<dc>>), T) IN
       /\ slaves' = r.slaves
       /\ inp' = Took(IF r.raised THEN "error" ELSE "handled")
    /\ sent' = <<>>
    /\ UNCHANGED <<macToIndexMap, wk, flashFlag, targetVersion, flashMessage,
                   lis, pub, emitted, slavesLock, stopped, bc,
                   slaveUpdateQueue, packetLoss,
                   joined, recovery>>

CtlDcSingleSelected(targets) ==
    \E T \in targets, dc \in DutyCycles : CtlDcSingleSelectedOn(T, dc)

\* CTL_DC_VECTOR.  C is the data part of the control vector, what follows
\* CTL_I_VECTOR_DC_OFFSET; the cursor i counts from 0 as in the code, the
\* device position index from 1.
\* C[i:i+slaveFans]: a slice is cut at the end of the vector.
Slice(C, i, fans) == [j \in 1..Min(fans, Len(C) - i) |-> C[i + j]]
\* list(slaveDCs) + [0] * (self.maxFans - len(slaveDCs))
PaddedDCs(slaveDCs) == slaveDCs \o Zeros(MaxFans - Len(slaveDCs))

\* Variant of VectorEach that moves the cursor by maxFans for every device.
RECURSIVE VectorEachByMaxFans(_, _, _, _)
VectorEachByMaxFans(list, C, index, i) ==
    IF ~(i < Len(C) /\ index <= Len(list)) THEN list
    ELSE VectorEachByMaxFans(
             [list EXCEPT ![index] =
                 DcEnqueue(@, Cmd(MOSI_DC_MULTI,
                                  PaddedDCs(Slice(C, i, @.fans))))],
             C, index + 1, i + MaxFans)
\* The loop "while i < L and index < len(self.slaves)": a CONNECTED device
\* is enqueued its padded slice, and the cursor moves by the fan count of
\* the device just passed whether or not it was CONNECTED.
RECURSIVE VectorEach(_, _, _, _)
VectorEach(list, C, index, i) ==
    IF ~(i < Len(C) /\ index <= Len(list)) THEN list
    ELSE VectorEach(
             [list EXCEPT ![index] =
                 DcEnqueue(@, Cmd(MOSI_DC_MULTI,
                                  PaddedDCs(Slice(C, i, @.fans))))],
             C, index + 1, i + list[index].fans)

CtlDcVectorOn(C) ==
    /\ Ready
    /\ DropsBelow(slaves)
    /\ slaves' = VectorEach(slaves, C, 1, 0)
    /\ sent' = <<>>
    /\ inp' = Took("handled")
    /\ UNCHANGED <<macToIndexMap, wk, flashFlag, targetVersion, flashMessage,
                   lis, pub, emitted, slavesLock, stopped, bc,
                   slaveUpdateQueue, packetLoss,
                   joined, recovery>>

CtlDcVectorOf(vectors) == \E C \in vectors : CtlDcVectorOn(C)
\* Two vectors of equal duty cycles: one ends after the first device's
\* part, one reaches into the second device's part.
RouterVectors == {<<1>>, <<1, 1, 1>>}
CtlDcVector == CtlDcVectorOf(RouterVectors)

\* The loop of CMD_DISCONNECT with target SELECTED: every listed device is
\* enqueued the disconnect, whatever its status.
RECURSIVE DisconnectEach(_, _)
DisconnectEach(list, T) ==
    IF T = <<>> THEN [slaves |-> list, raised |-> FALSE]
    ELSE IF Missing(list, Head(T)) THEN [slaves |-> list, raised |-> TRUE]
    ELSE DisconnectEach(
            [list EXCEPT ![Head(T)] = SetMOSI(@, Cmd(MOSI_DISCONNECT, <<>>))],
            Tail(T))

\* CMD_DISCONNECT with target SELECTED and the index list T.
CmdDisconnectSelectedOn(T) ==
    /\ Ready
    /\ DropsBelow(slaves)
    /\ LET r == DisconnectEach(slaves, T) IN
       /\ slaves' = r.slaves
       /\ inp' = Took(IF r.raised THEN "error" ELSE "handled")
    /\ sent' = <<>>
    /\ UNCHANGED <<macToIndexMap, wk, flashFlag, targetVersion, flashMessage,
                   lis, pub, emitted, slavesLock, stopped, bc,
                   slaveUpdateQueue, packetLoss,
                   joined, recovery>>

CmdDisconnectSelected(targets) == \E T \in targets : CmdDisconnectSelectedOn(T)

\* Variant of InputUnknown under which the lookup failure ends the loop.
InputUnknownFatal ==
    /\ Ready
    /\ inp' = [inp EXCEPT !.alive = FALSE, !.last = "error"]
    /\ sent' = <<>>
    /\ UNCHANGED <<slaves, macToIndexMap, wk, flashFlag, targetVersion,
                   flashMessage, lis, pub, emitted, slavesLock,
                   slaveUpdateQueue, stopped, bc, packetLoss,
                   joined, recovery>>
\* A vector whose opcode is in neither dispatch table: the lookup raises
\* KeyError, which the loop logs as a warning.
InputUnknown ==
    /\ Ready
    /\ inp' = Took("warned")
    /\ sent' = <<>>
    /\ UNCHANGED <<slaves, macToIndexMap, wk, flashFlag, targetVersion,
                   flashMessage, lis, pub, emitted, slavesLock,
                   slaveUpdateQueue, stopped, bc, packetLoss,
                   joined, recovery>>

\* ------------------------------------------------------------ the publisher
\* The feedback loop of _outputRoutine: one device read per step; the
\* iteration ends when the position passes the current end of the list.
\* read is history: the pairs getMISO() returned, in the order read.
PubIdle == [pc |-> "loop", k |-> 1, Fr |-> <<>>, Fd |-> <<>>, read |-> <<>>]
NoFeedback == [some |-> FALSE, vec |-> <<>>, D |-> 0, read |-> <<>>, size |-> 0]

\* Variant of Accumulate that puts the newest device first.
AccumulateFront(F, v) == v \o F
\* F_r += rpms, F_d += dcs
Accumulate(F, v) == F \o v
\* F_r + F_d
FeedbackVector(Fr, Fd) == Fr \o Fd

PubIter ==
    /\ pub.pc = "loop"
    /\ IF pub.k <= Len(slaves)
       THEN LET pair == GetMISO(slaves[pub.k]) IN
            pub' = [pub EXCEPT !.k = @ + 1,
                               !.Fr = Accumulate(@, pair.rpms),
                               !.Fd = Accumulate(@, pair.dcs),
                               !.read = Append(@, pair)]
       ELSE pub' = [pub EXCEPT !.pc = "send"]
    /\ UNCHANGED <<slaves, macToIndexMap, wk, flashFlag, targetVersion,
                   flashMessage, lis, sent, emitted, slavesLock, stopped, inp, bc,
                   slaveUpdateQueue, packetLoss,
                   joined, recovery>>

\* feedbackPipeSend.send(F_r + F_d); D: the devices the loop read, size: the
\* registry's length at the moment of the send.
PubSend ==
    /\ pub.pc = "send"
    /\ emitted' = [some |-> TRUE, vec |-> FeedbackVector(pub.Fr, pub.Fd),
                   D |-> pub.k - 1, read |-> pub.read, size |-> Len(slaves)]
    /\ pub' = PubIdle
    /\ UNCHANGED <<slaves, macToIndexMap, wk, flashFlag, targetVersion,
                   flashMessage, lis, sent, slavesLock, stopped, inp, bc, slaveUpdateQueue,
                   packetLoss,
                   joined, recovery>>

\* ------------------------------------------------- the error recovery
\* ErrorRecoveryManager of error_recovery.py.  An error is known by its
\* type; what its recovery strategy does at each invocation is an input, the
\* script: "ok" (returns True), "fail" (returns False) or "raise".
ErrorTypes == {"socket_timeout", "custom"}
DefaultStrategies == {"socket_timeout"}
Outcomes == {"ok", "fail", "raise"}
Scripts == [1..(MaxRetryAttempts + 1) -> Outcomes]
NoCall == [type |-> "", script |-> <<>>, result |-> FALSE, invoked |-> 0]
InitialRecovery ==
    [strategies |-> DefaultStrategies, history |-> <<>>, last |-> NoCall]

\* Variant of AttemptRecovery that allows one more retry.
RECURSIVE AttemptRecoveryOneMore(_, _, _)
AttemptRecoveryOneMore(registered, script, retry_count) ==
    IF ~registered THEN [result |-> FALSE, invoked |-> 0]
    ELSE IF retry_count > MaxRetryAttempts
    THEN [result |-> FALSE, invoked |-> 0]
    ELSE LET success == script[retry_count + 1] IN
         IF success = "ok" THEN [result |-> TRUE, invoked |-> 1]
         ELSE IF success = "raise" THEN [result |-> FALSE, invoked |-> 1]
         ELSE LET r == AttemptRecoveryOneMore(registered, script,
                                              retry_count + 1)
              IN [result |-> r.result, invoked |-> r.invoked + 1]
\* _attempt_recovery(error_info) at error_info.retry_count: its result and
\* the number of times it has invoked the strategy.
RECURSIVE AttemptRecovery(_, _, _)
AttemptRecovery(registered, script, retry_count) ==
    IF ~registered THEN [result |-> FALSE, invoked |-> 0]
    ELSE IF retry_count >= MaxRetryAttempts
    THEN [result |-> FALSE, invoked |-> 0]
    ELSE LET success == script[retry_count + 1] IN
         IF success = "ok" THEN [result |-> TRUE, invoked |-> 1]
         ELSE IF success = "raise" THEN [result |-> FALSE, invoked |-> 1]
         ELSE LET r == AttemptRecovery(registered, script, retry_count + 1)
              IN [result |-> r.result, invoked |-> r.invoked + 1]

\* error_history.append(error_info), then pop(0) when the list has grown
\* past max_history_size.
Record(history, type) ==
    LET h == Append(history, type)
    IN IF Len(h) > MaxHistory THEN Tail(h) ELSE h

\* handle_error(error_type, error, context).
HandleErrorOn(type, script) ==
    /\ LET r == AttemptRecovery(type \in recovery.strategies, script, 0) IN
       recovery' = [recovery EXCEPT
                      !.history = Record(@, type),
                      !.last = [type |-> type, script |-> script,
                                result |-> r.result, invoked |-> r.invoked]]
    /\ UNCHANGED <<slaves, macToIndexMap, wk, flashFlag, targetVersion,
                   flashMessage, lis, sent, pub, emitted, slavesLock,
                   slaveUpdateQueue, stopped, inp, bc, packetLoss, joined>>

HandleError == \E type \in ErrorTypes, script \in Scripts : HandleErrorOn(type, script)

\* register_recovery_strategy(error_type, strategy).
RegisterRecoveryStrategy ==
    /\ \E type \in ErrorTypes :
         recovery' = [recovery EXCEPT !.strategies = @ \cup {type}]
    /\ UNCHANGED <<slaves, macToIndexMap, wk, flashFlag, targetVersion,
                   flashMessage, lis, sent, pub, emitted, slavesLock,
                   slaveUpdateQueue, stopped, inp, bc, packetLoss, joined>>

\* ------------------------------------------------- stop, beacons and faults
\* sendDisconnect(): one sendto of the disconnect directive on the broadcast
\* address; an exception of the sendto is logged and swallowed, and then no
\* datagram has gone out.
SendDisconnect(ok) == Out("bc", 0, -1, Msg("X", <<>>), IF ok THEN 1 ELSE 0)
DisconnectBroadcast == SendDisconnect(TRUE)

\* stop(): sendDisconnect(), then the stop signal; nothing keeps it from
\* being called again.
StopOn(ok) ==
    /\ sent' = <<SendDisconnect(ok)>>
    /\ stopped' = TRUE
    /\ UNCHANGED <<slaves, macToIndexMap, wk, flashFlag, targetVersion,
                   flashMessage, lis, pub, emitted, slavesLock,
                   slaveUpdateQueue, inp, bc, packetLoss,
                   joined, recovery>>

Stop == \E ok \in BOOLEAN : StopOn(ok)

\* Variant of JoinReturn that does not wait for the signal.
JoinReturnAnyway ==
    /\ ~joined
    /\ joined' = TRUE
    /\ UNCHANGED <<slaves, macToIndexMap, wk, flashFlag, targetVersion,
                   flashMessage, lis, sent, pub, emitted, slavesLock,
                   slaveUpdateQueue, stopped, inp, bc, packetLoss, recovery>>
\* join() with no timeout: self.stopped.wait(None) returns once the signal
\* is set.
JoinReturn ==
    /\ stopped
    /\ ~joined
    /\ joined' = TRUE
    /\ UNCHANGED <<slaves, macToIndexMap, wk, flashFlag, targetVersion,
                   flashMessage, lis, sent, pub, emitted, slavesLock,
                   slaveUpdateQueue, stopped, inp, bc, packetLoss, recovery>>

\* One pass of _broadcastRoutine's loop: the beacon goes out.
BroadcastBeacon ==
    /\ bc.alive
    /\ sent' = <<Out("bc", 0, -1, Msg("N", <<>>), 1)>>
    /\ UNCHANGED <<slaves, macToIndexMap, wk, flashFlag, targetVersion,
                   flashMessage, lis, pub, emitted, slavesLock,
                   slaveUpdateQueue, stopped, inp, bc, packetLoss,
                   joined, recovery>>

\* Variant of BroadcastFault that ends the broadcast thread and nothing else.
BroadcastFaultContained ==
    /\ bc.alive
    /\ bc' = [alive |-> FALSE]
    /\ sent' = <<>>
    /\ UNCHANGED <<slaves, macToIndexMap, wk, flashFlag, targetVersion,
                   flashMessage, lis, pub, emitted, slavesLock,
                   slaveUpdateQueue, stopped, inp, packetLoss,
                   joined, recovery>>
\* An exception in _broadcastRoutine: its handler calls stop() and the
\* thread ends.
BroadcastFault ==
    /\ bc.alive
    /\ bc' = [alive |-> FALSE]
    /\ \E ok \in BOOLEAN : sent' = <<SendDisconnect(ok)>>
    /\ stopped' = TRUE
    /\ UNCHANGED <<slaves, macToIndexMap, wk, flashFlag, targetVersion,
                   flashMessage, lis, pub, emitted, slavesLock,
                   slaveUpdateQueue, inp, packetLoss,
                   joined, recovery>>

\* An exception in the set-up section of _slaveRoutine, before its loop:
\* logged, raised again, and the worker of device i is gone.
WorkerSetupFault(i) ==
    /\ i \in 1..Len(slaves)
    /\ wk[i] = NewWorker
    /\ wk' = SetWk(i, [wk[i] EXCEPT !.pc = "dead", !.script = 0])
    /\ sent' = <<>>
    /\ UNCHANGED <<slaves, macToIndexMap, flashFlag, targetVersion,
                   flashMessage, lis, pub, emitted, slavesLock,
                   slaveUpdateQueue, stopped, inp, bc, packetLoss,
                   joined, recovery>>

\* An exception inside the loop of _slaveRoutine, while device i's worker
\* waits for a reply: logged, and the loop starts its next pass.
WorkerLoopFault(i) ==
    /\ i \in 1..Len(slaves)
    /\ wk[i].pc \in {"hsk", "conn"}
    /\ wk' = SetWk(i, [wk[i] EXCEPT !.pc = "top", !.tries = 0, !.script = 0])
    /\ sent' = <<>>
    /\ UNCHANGED <<slaves, macToIndexMap, flashFlag, targetVersion,
                   flashMessage, lis, pub, emitted, slavesLock,
                   slaveUpdateQueue, stopped, inp, bc, packetLoss,
                   joined, recovery>>

\* recvfrom returns with socket.timeout: "continue", nothing is logged.
ListenerTimeout ==
    /\ lis.alive
    /\ ~lis.pend
    /\ sent' = <<>>
    /\ UNCHANGED <<slaves, macToIndexMap, wk, flashFlag, targetVersion,
                   flashMessage, lis, pub, emitted, slavesLock,
                   slaveUpdateQueue, stopped, inp, bc, packetLoss,
                   joined, recovery>>

\* Variant of ListenerSocketError that leaves the loop.
ListenerSocketErrorFatal ==
    /\ lis.alive
    /\ ~lis.pend
    /\ lis' = [lis EXCEPT !.warned = "socket", !.alive = FALSE]
    /\ sent' = <<>>
    /\ UNCHANGED <<slaves, macToIndexMap, wk, flashFlag, targetVersion,
                   flashMessage, pub, emitted, slavesLock,
                   slaveUpdateQueue, stopped, inp, bc, packetLoss,
                   joined, recovery>>
\* recvfrom, or the sendto of a reply, raises socket.error: every sendto of
\* the loop comes before the status update of its branch, so nothing has
\* been changed yet; the error is reported and the loop continues.
ListenerSocketError ==
    /\ lis.alive
    /\ ~lis.pend
    /\ lis' = [lis EXCEPT !.warned = "socket"]
    /\ sent' = <<>>
    /\ UNCHANGED <<slaves, macToIndexMap, wk, flashFlag, targetVersion,
                   flashMessage, pub, emitted, slavesLock,
                   slaveUpdateQueue, stopped, inp, bc, packetLoss,
                   joined, recovery>>

\* An exception in the listener while it handles a datagram ("except
\* Exception"): logged, the datagram is given up and the loop reads again.
ListenerFault ==
    /\ lis.pend
    /\ lis' = NoPending
    /\ sent' = <<>>
    /\ UNCHANGED <<slaves, macToIndexMap, wk, flashFlag, targetVersion,
                   flashMessage, pub, emitted, slavesLock,
                   slaveUpdateQueue, stopped, inp, bc, packetLoss,
                   joined, recovery>>

\* An exception in a pass of _outputRoutine's loop: logged, the pass is
\* given up and the next one starts.
PublisherFault ==
    /\ pub # PubIdle
    /\ pub' = PubIdle
    /\ UNCHANGED <<slaves, macToIndexMap, wk, flashFlag, targetVersion,
                   flashMessage, lis, sent, emitted, slavesLock,
                   slaveUpdateQueue, stopped, inp, bc, packetLoss,
                   joined, recovery>>

\* EOFError / OSError on a pipe of _inputRoutine: logged, and the loop ends.
RouterPipeFault ==
    /\ Ready
    /\ inp' = [inp EXCEPT !.alive = FALSE, !.last = "error"]
    /\ sent' = <<>>
    /\ UNCHANGED <<slaves, macToIndexMap, wk, flashFlag, targetVersion,
                   flashMessage, lis, pub, emitted, slavesLock,
                   slaveUpdateQueue, stopped, bc, packetLoss,
                   joined, recovery>>

\* ------------------------------------------------------------ construction
\* __init__: one DISCONNECTED record per saved device, in saved order.
InitWith(saved) ==
    /\ slaves = [k \in 1..Len(saved) |->
            NewSlave(saved[k], "DISCONNECTED", SavedFans, NoVersion, NoIP, 0, 0)]
    /\ macToIndexMap = [m \in {saved[k] : k \in 1..Len(saved)} |->
            CHOOSE k \in 1..Len(saved) : saved[k] = m]
    /\ wk = [k \in 1..Len(saved) |-> NewWorker]
    /\ flashFlag = FALSE
    /\ targetVersion = NoVersion
    /\ flashMessage = NoFlashMessage
    /\ lis = NoPending
    /\ sent = <<>>
    /\ pub = PubIdle
    /\ emitted = NoFeedback
    /\ slavesLock = Free
    /\ slaveUpdateQueue = NoUpdate
    /\ stopped = FALSE
    /\ inp = [alive |-> TRUE, last |-> "handled", at |-> "loop", D |-> NoVector]
    /\ bc = [alive |-> TRUE]
    /\ packetLoss = FALSE
    /\ joined = FALSE
    /\ recovery = InitialRecovery

\* ------------------------------------------------------------ specifications
\* Spec: the connection state machine of one saved device -- its worker
\* facing silence and tag-only replies, the listener hearing that device, and
\* announce beacons, and the firmware-update commands.
Handshake == \E i \in 1..Len(slaves) : WorkerHandshake(i, BOOLEAN)
HskRecv == \E i \in 1..Len(slaves) : WorkerHskRecv(i, ProtoBursts, BOOLEAN)
Reboot == \E i \in 1..Len(slaves) : WorkerReboot(i, BOOLEAN)
Cycle == \E i \in 1..Len(slaves) : WorkerCycleTo(i, BOOLEAN, LongIndex)
ConnRecv == \E i \in 1..Len(slaves) : WorkerConnRecv(i, ProtoBursts, BOOLEAN)
ListenOne == ListenerRecv({d \in BeaconsOf({"m1", ShortMAC}) : d.kind = "A"})

Init == InitWith(<<"m1">>)

Next ==
    \/ Handshake
    \/ HskRecv
    \/ Reboot
    \/ Cycle
    \/ ConnRecv
    \/ ListenOne
    \/ ListenerSetKnown
    \/ CmdFUpdateStart
    \/ CmdFUpdateStop

Spec == Init /\ [][Next]_vars

\* SpecRegistry: discovery, the add command and the firmware-update commands
\* over a registry that holds one saved device (never heard from) and grows
\* by a discovered one, whose device acknowledges handshakes and is
\* otherwise silent.
QuietHandshake == \E i \in 1..Len(slaves) : WorkerHandshake(i, {TRUE})
QuietHskRecv == \E i \in 1..Len(slaves) : WorkerHskRecv(i, QuietBursts, {TRUE})
QuietReboot == \E i \in 1..Len(slaves) : WorkerReboot(i, {TRUE})
QuietCycle == \E i \in 1..Len(slaves) : WorkerCycle(i, {TRUE})
QuietConnRecv == \E i \in 1..Len(slaves) : WorkerConnRecv(i, QuietBursts, {TRUE})
ListenNew == ListenerRecv(BeaconsOf({"m2", ShortMAC}))
AddAny == CmdAddSelected({<<k>> : k \in 1..Len(slaves)})

NextRegistry ==
    \/ QuietHandshake
    \/ QuietHskRecv
    \/ QuietReboot
    \/ QuietCycle
    \/ QuietConnRecv
    \/ ListenNew
    \/ ListenerSetKnown
    \/ CmdAddAll
    \/ AddAny
    \/ CmdFUpdateStart
    \/ CmdFUpdateStop

SpecRegistry == Init /\ [][NextRegistry]_vars

\* SpecLock: discovery of one device (well-formed beacons only), the add
\* command and the device's worker, with slavesLock at times held by another
\* task for longer than the bounded wait of safe_acquire_lock.
ListenWellFormed ==
    ListenerRecv({d \in BeaconsOf({"m2"}) :
                    /\ d.pass = Passcode /\ d.type = "N"
                    /\ AnnounceValid(d) /\ d.version = "v1"})

LockHold ==
    /\ slavesLock = Free
    /\ slavesLock' = Held
    /\ UNCHANGED <<slaves, macToIndexMap, wk, flashFlag, targetVersion,
                   flashMessage, lis, sent, pub, emitted, slaveUpdateQueue,
                   stopped, inp, bc, packetLoss, joined, recovery>>

LockRelease ==
    /\ slavesLock = Held
    /\ slavesLock' = Free
    /\ UNCHANGED <<slaves, macToIndexMap, wk, flashFlag, targetVersion,
                   flashMessage, lis, sent, pub, emitted, slaveUpdateQueue,
                   stopped, inp, bc, packetLoss, joined, recovery>>

NextLock ==
    \/ QuietHandshake
    \/ QuietHskRecv
    \/ QuietCycle
    \/ QuietConnRecv
    \/ ListenWellFormed
    \/ ListenerSetKnown
    \/ AddAny
    \/ LockHold
    \/ LockRelease

SpecLock == Init /\ [][NextLock]_vars

\* SpecRouter: the command router's add, duty-cycle and disconnect handlers
\* and unknown opcodes, over a registry of one saved device (never heard
\* from) and one discovered device, whose worker drains its mailbox.  A
\* selected-target list names one position: either device or a position the
\* registry never holds; the discovered device sends one and the same
\* beacon and never answers once connected.
SingleTargets == {<<a>> : a \in 1..3}
SilentConnRecv == \E i \in 1..Len(slaves) : WorkerConnRecv(i, {<<>>}, {TRUE})
ListenSame == ListenerRecv({Beacon("A", Passcode, "m2", "N", 1, PortMax, "v1")})
AddOne == CmdAddSelected(SingleTargets)
DcOne == CtlDcSingleSelected(SingleTargets)
DisconnectOne == CmdDisconnectSelected({<<2>>, <<3>>})

NextRouter ==
    \/ QuietHandshake
    \/ QuietHskRecv
    \/ QuietCycle
    \/ SilentConnRecv
    \/ ListenSame
    \/ ListenerSetKnown
    \/ CmdAddAll
    \/ AddOne
    \/ CtlDcSingleAll
    \/ DcOne
    \/ CtlDcVector
    \/ DisconnectOne
    \/ InputUnknown

SpecRouter == Init /\ [][NextRouter]_vars

\* SpecFanout: the add and single-fan duty-cycle handlers for all devices
\* and for lists of one or two positions, over the same registry; the lists
\* name both devices and one position the registry never holds.
TargetLists ==
    {<<a>> : a \in 1..3} \cup {T \in (1..3) \X (1..3) : T[1] # T[2]}
AddListed == CmdAddSelected(TargetLists)
DcListed == CtlDcSingleSelected(TargetLists)

NextFanout ==
    \/ QuietHandshake
    \/ QuietHskRecv
    \/ QuietCycle
    \/ SilentConnRecv
    \/ ListenSame
    \/ ListenerSetKnown
    \/ CmdAddAll
    \/ AddListed
    \/ CtlDcSingleAll
    \/ DcListed

SpecFanout == Init /\ [][NextFanout]_vars

\* SpecUpdate: a firmware update that starts and stops while the discovered
\* device, whose version is not the target's, is connected and has
\* duty-cycle commands waiting in its mailbox.
NextUpdate ==
    \/ QuietHandshake
    \/ QuietHskRecv
    \/ QuietReboot
    \/ QuietCycle
    \/ SilentConnRecv
    \/ ListenSame
    \/ ListenerSetKnown
    \/ AddAny
    \/ CtlDcSingleAll
    \/ CmdFUpdateStart
    \/ CmdFUpdateStop

SpecUpdate == Init /\ [][NextUpdate]_vars

\* SpecFaults: the faults of each task -- the worker of one saved device
\* (which beacons and never answers once connected), a discovered device
\* that nobody adds, the listener, the publisher, the broadcaster and the
\* router.
ListenBoth ==
    ListenerRecv({Beacon("A", Passcode, mac, "N", 1, PortMax, "v1") :
                    mac \in MACS})
WorkerFaults ==
    \E i \in 1..Len(slaves) : WorkerSetupFault(i) \/ WorkerLoopFault(i)

NextFaults ==
    \/ QuietHandshake
    \/ QuietHskRecv
    \/ QuietCycle
    \/ SilentConnRecv
    \/ ListenBoth
    \/ ListenerSetKnown
    \/ PubIter
    \/ PubSend
    \/ WorkerFaults
    \/ ListenerFault
    \/ ListenerTimeout
    \/ ListenerSocketError
    \/ PublisherFault
    \/ RouterPipeFault
    \/ BroadcastFault

SpecFaults == Init /\ [][NextFaults]_vars

\* SpecRecovery: errors of a registered and of an unregistered type are
\* handled, with every script of strategy outcomes, and strategies are
\* registered.
NextRecovery ==
    \/ HandleError
    \/ RegisterRecoveryStrategy

SpecRecovery == Init /\ [][NextRecovery]_vars

\* SpecVector: the multi-fan duty-cycle handler over a registry of two
\* devices with different fan counts, both of which announce themselves
\* and connect in either order; the mailboxes are not drained.  The
\* vectors carry a different duty cycle at every position and hold one, two
\* or three entries, so that some end before the second device's part is
\* complete.
Vectors == {<<1>>, <<1, 2>>, <<1, 2, 3>>}
VectorListed == CtlDcVectorOf(Vectors)

NextVector ==
    \/ QuietHandshake
    \/ QuietHskRecv
    \/ ListenBoth
    \/ ListenerSetKnown
    \/ AddAny
    \/ VectorListed

SpecVector == Init /\ [][NextVector]_vars

\* SpecStop: the stop signal -- the worker of the saved device, the
\* listener hearing that device's beacon, the publisher and the broadcaster,
\* each scheduled again and again, and one call of stop().
ListenSaved ==
    ListenerRecv({Beacon("A", Passcode, "m1", "N", 1, PortMax, "v1")})
TaskWorker(i) ==
    \/ WorkerHandshake(i, {TRUE})
    \/ WorkerHskRecv(i, QuietBursts, {TRUE})
    \/ WorkerCycle(i, {TRUE})
    \/ WorkerConnRecv(i, {<<>>}, {TRUE})

NextStop ==
    \/ QuietHandshake
    \/ QuietHskRecv
    \/ QuietCycle
    \/ SilentConnRecv
    \/ ListenSaved
    \/ ListenerSetKnown
    \/ PubIter
    \/ PubSend
    \/ BroadcastBeacon
    \/ Stop
    \/ JoinReturn

SpecStop ==
    /\ Init
    /\ [][NextStop]_vars
    /\ WF_vars(TaskWorker(1))
    /\ WF_vars(ListenSaved \/ ListenerSetKnown)
    /\ WF_vars(PubIter \/ PubSend)
    /\ WF_vars(BroadcastBeacon)
    /\ WF_vars(JoinReturn)

\* SpecLoss: total packet loss -- the workers of the saved device and of a
\* discovered one, the listener hearing their beacons and the add command,
\* until the network goes down for good; from then on no receive wait is
\* handed a datagram.  The workers and the listener are scheduled again and
\* again.
\* optimize_socket_timeout(...): every socket has a finite timeout, so a
\* receive wait that is handed nothing ends without a datagram.
TimedOut == <<>>
Delivered == IF packetLoss THEN {TimedOut} ELSE QuietBursts

\* Enough of the model's exchange indices are left for a CONNECTED device to
\* run out of patience.
LossBudget ==
    \A k \in 1..Len(slaves) :
        slaves[k].mosiIndex + 2 * (MaxTimeouts + 1) <= LongIndex

NetworkDown ==
    /\ ~packetLoss
    /\ LossBudget
    /\ packetLoss' = TRUE
    /\ UNCHANGED <<slaves, macToIndexMap, wk, flashFlag, targetVersion,
                   flashMessage, lis, sent, pub, emitted, slavesLock,
                   slaveUpdateQueue, stopped, inp, bc, joined, recovery>>

LossWorker(i) ==
    \/ WorkerHandshake(i, {TRUE})
    \/ WorkerHskRecv(i, Delivered, {TRUE})
    \/ WorkerCycleTo(i, {TRUE}, LongIndex)
    \/ WorkerConnRecv(i, Delivered, {TRUE})
LossCycle == \E i \in 1..Len(slaves) : WorkerCycleTo(i, {TRUE}, LongIndex)
LossHskRecv == \E i \in 1..Len(slaves) : WorkerHskRecv(i, Delivered, {TRUE})
LossConnRecv == \E i \in 1..Len(slaves) : WorkerConnRecv(i, Delivered, {TRUE})
LossListen == ~packetLoss /\ ListenBoth

NextLoss ==
    \/ QuietHandshake
    \/ LossHskRecv
    \/ LossCycle
    \/ LossConnRecv
    \/ LossListen
    \/ ListenerSetKnown
    \/ AddAny
    \/ NetworkDown

SpecLoss ==
    /\ Init
    /\ [][NextLoss]_vars
    /\ \A i \in 1..2 : WF_vars(LossWorker(i))
    /\ WF_vars(ListenerSetKnown)

\* SpecFeedback: the publisher's loop running against one worker that
\* receives telemetry and a listener that appends a second device.
DataHskRecv == \E i \in 1..Len(slaves) : WorkerHskRecv(i, QuietBursts, {TRUE})
DataConnRecv == \E i \in 1..Len(slaves) : WorkerConnRecv(i, DataBursts, {TRUE})
ListenAnnounces == ListenerRecv(Announces)

NextFeedback ==
    \/ QuietHandshake
    \/ DataHskRecv
    \/ QuietCycle
    \/ DataConnRecv
    \/ ListenAnnounces
    \/ ListenerSetKnown
    \/ PubIter
    \/ PubSend

SpecFeedback == Init /\ [][NextFeedback]_vars

\* SpecEndpoint: how endpoints are learned -- the saved device and a
\* discovered one, both announcing (with good and bad port pairs) and both
\* at times in their bootloader, the add command and the two workers, of
\* which the saved device's goes on into the steady state and loses the
\* connection again.
ListenEndpoints ==
    ListenerRecv({d \in BeaconsOf(MACS) :
                    d.pass = Passcode /\ d.type = "N" /\ d.version = "v1"})

SavedCycle == WorkerCycle(1, {TRUE})
SavedConnRecv == WorkerConnRecv(1, {<<>>}, {TRUE})

NextEndpoint ==
    \/ QuietHandshake
    \/ QuietHskRecv
    \/ SavedCycle
    \/ SavedConnRecv
    \/ ListenEndpoints
    \/ ListenerSetKnown
    \/ AddAny

SpecEndpoint == Init /\ [][NextEndpoint]_vars

\* SpecFlash: the firmware orchestrator -- the router handling start
\* vectors (two updates and one vector that lacks the file name) statement by
\* statement and stop vectors, while the listener hears the saved device's
\* announce and bootloader beacons and the device's worker runs.
StartVectors ==
    {[n |-> 3, version |-> "v2", file |-> 1, size |-> 1],
     [n |-> 3, version |-> "v1", file |-> 2, size |-> 2],
     [n |-> 1, version |-> "v2", file |-> 0, size |-> 0]}
StartListed == FUpdateStartVersion(StartVectors)
FlashBeacons ==
    {d \in BeaconsOf({"m1"}) :
       d.pass = Passcode /\ d.type = "N" /\ AnnounceValid(d)}
ListenFlash == ListenerRecv(FlashBeacons)

NextFlash ==
    \/ QuietHandshake
    \/ QuietHskRecv
    \/ QuietReboot
    \/ QuietCycle
    \/ SilentConnRecv
    \/ ListenFlash
    \/ ListenerSetKnown
    \/ StartListed
    \/ FUpdateStartFlag
    \/ FUpdateStartMessage
    \/ CmdFUpdateStop

SpecFlash == Init /\ [][NextFlash]_vars

\* SpecSockets: the handshake of the saved device against the ports of its
\* private sockets -- the device announces itself and acknowledges or stays
\* silent, and the system binds each new socket pair to one of two ports.
Ports == {FirstPort, FirstPort + 1}
BindingHskRecv ==
    \E i \in 1..Len(slaves), burst \in QuietBursts, port \in Ports :
        WorkerHskRecvBinding(i, burst, TRUE, port)

NextSockets ==
    \/ QuietHandshake
    \/ BindingHskRecv
    \/ QuietCycle
    \/ SilentConnRecv
    \/ ListenSaved
    \/ ListenerSetKnown

SpecSockets == Init /\ [][NextSockets]_vars

\* ------------------------------------------------------------ properties
\* The copies of the disconnect directive 'X' for device i among the
\* datagrams s of one step.
RECURSIVE DisconnectsSent(_, _)
DisconnectsSent(s, i) ==
    IF s = <<>> THEN 0
    ELSE (IF Head(s).t = "X" /\ Head(s).to = i THEN Head(s).n ELSE 0)
         + DisconnectsSent(Tail(s), i)

\* The last stage of the script: CONNECTED, then MaxTimeouts + 1 silent cycles.
ScriptEnd == 3 + MaxTimeouts + 1

\* C1 as stated: the silent cycle that completes exactly MaxTimeouts
\* consecutive silent cycles of a CONNECTED device makes it DISCONNECTED and
\* issues exactly one 'X'.
C1_AsStated ==
    [][\A i \in 1..Len(slaves) :
         (/\ wk[i].pc = "conn" /\ slaves[i].status = "CONNECTED"
          /\ wk[i].script = 3 + MaxTimeouts - 1
          /\ wk'[i].script = 3 + MaxTimeouts)
         => (/\ slaves'[i].status = "DISCONNECTED"
             /\ DisconnectsSent(sent', i) = 1)]_vars

\* C1 amended: a worker declares its CONNECTED device DISCONNECTED for missed
\* replies only in a silent cycle in which the missed-reply counter has
\* reached MaxTimeouts or more and the connection's reconnect probe 'Y' has
\* already been spent, and that step issues exactly one 'X'; counted from a
\* fresh connection, the first MaxTimeouts silent cycles leave the device
\* CONNECTED with no 'X' and the next one disconnects it.
C1_TimeoutDisconnect ==
    [][\A i \in 1..Len(slaves) :
         /\ (/\ wk[i].pc = "conn" /\ slaves[i].status = "CONNECTED"
             /\ slaves'[i].status = "DISCONNECTED")
            => (/\ wk[i].timeouts + 1 >= MaxTimeouts
                /\ ~wk[i].tryBuffer
                /\ DisconnectsSent(sent', i) = 1
                /\ Len(sent') = 1
                /\ wk'[i].timeouts = 0)
         /\ (/\ wk[i].pc = "conn" /\ slaves[i].status = "CONNECTED"
             /\ wk[i].script >= 3 /\ wk'[i].script = wk[i].script + 1)
            => IF wk'[i].script < ScriptEnd
               THEN /\ slaves'[i].status = "CONNECTED"
                    /\ DisconnectsSent(sent', i) = 0
               ELSE /\ slaves'[i].status = "DISCONNECTED"
                    /\ DisconnectsSent(sent', i) = 1]_vars

\* A fresh connection has been dropped after MaxTimeouts + 1 silent cycles,
\* the 'X' being the datagram of the last step.
C1_Witness ==
    \E i \in 1..Len(slaves) :
        /\ slaves[i].status = "DISCONNECTED"
        /\ wk[i].script = ScriptEnd
        /\ DisconnectsSent(sent, i) = 1

\* C2: a handshake during which no datagram arrives sends the initial
\* descriptor and HskTries retries, each followed by one receive wait, and
\* the wait after the last retry ends it with the device DISCONNECTED; no
\* further descriptor or wait follows.
C2_HandshakeBudget ==
    [][\A i \in 1..Len(slaves) :
         (wk[i].pc = "hsk" /\ wk[i].hskQuiet)
         => /\ wk[i].hskSent = wk[i].hskWaits + 1
            /\ wk[i].hskWaits <= HskTries
            /\ (wk'[i].hskQuiet /\ wk'[i] # wk[i])
               => /\ wk'[i].hskWaits = wk[i].hskWaits + 1
                  /\ IF wk[i].hskWaits < HskTries
                     THEN /\ wk'[i].pc = "hsk"
                          /\ wk'[i].hskSent = wk[i].hskSent + 1
                          /\ slaves'[i].status = slaves[i].status
                          /\ Len(sent') = 1 /\ sent'[1].t = "H"
                     ELSE /\ wk'[i].pc = "top"
                          /\ wk'[i].hskSent = HskTries + 1
                          /\ slaves[i].status = "KNOWN"
                          /\ slaves'[i].status = "DISCONNECTED"]_vars

\* A handshake that heard nothing has ended: three descriptors, three waits.
C2_Witness ==
    \E i \in 1..Len(slaves) :
        /\ wk[i].pc = "top" /\ wk[i].hskQuiet
        /\ wk[i].hskSent = HskTries + 1 /\ wk[i].hskWaits = HskTries + 1
        /\ slaves[i].status = "DISCONNECTED"

\* C5: the listener handling a device-announce beacon whose MAC belongs to a
\* CONNECTED device -- update pending or not, version matching or not --
\* changes neither the registry nor the MAC map and requests no status
\* update: the device keeps its index and stays CONNECTED.
C5_ReannounceConnected ==
    [][\A d \in Beacons :
         LET i == GetSlaveIndexByMAC(d.mac) IN
         (/\ d.kind = "A" /\ i # 0
          /\ slaves[i].status = "CONNECTED"
          /\ ListenerHandle(d))
         => (/\ slaves' = slaves
             /\ macToIndexMap' = macToIndexMap
             /\ GetSlaveIndexByMAC(d.mac)' = i
             /\ slaves'[i].status = "CONNECTED"
             /\ ~lis'.pend)]_vars

\* A CONNECTED device re-announced itself while an update was pending and was
\* sent the reboot directive; it is still CONNECTED.
C5_Witness ==
    \E i \in 1..Len(slaves) :
        /\ slaves[i].status = "CONNECTED"
        /\ flashFlag
        /\ sent = <<ListenerReply(RebootMessage)>>

\* C7 as stated: once a device that followed the script (saved DISCONNECTED,
\* beacon, 'H') has been silent for MaxTimeouts cycles or more, it is
\* DISCONNECTED.
C7_AsStated ==
    \A i \in 1..Len(slaves) :
        wk[i].script >= 3 + MaxTimeouts => slaves[i].status = "DISCONNECTED"

\* C7 amended: along the script a saved DISCONNECTED device is made KNOWN by
\* its beacon and CONNECTED by the 'H'; it stays CONNECTED through the first
\* MaxTimeouts silent cycles and is DISCONNECTED by the next one; the only
\* 'X' of the whole run is the one sent in that last step.
C7_Scenario ==
    [][\A i \in 1..Len(slaves) :
         LET s == wk'[i].script
             st == slaves'[i].status
         IN
         /\ s = 1 => st \in {"DISCONNECTED", "KNOWN"}
         /\ s = 2 => st = "KNOWN"
         /\ s \in 3..(ScriptEnd - 1) => st = "CONNECTED"
         /\ s = ScriptEnd => st = "DISCONNECTED"
         /\ s # 0 => DisconnectsSent(sent', i) =
                        IF s = ScriptEnd /\ wk[i].script = ScriptEnd - 1
                        THEN 1 ELSE 0]_vars

\* The saved device has been through the whole script: its endpoint was
\* learned from the beacon and the timeout has disconnected it.
C7_Witness ==
    /\ Len(slaves) = 1
    /\ slaves[1].mac = "m1" /\ slaves[1].ip = SenderIP
    /\ slaves[1].status = "DISCONNECTED"
    /\ wk[1].script = ScriptEnd /\ wk[1].timeouts = 0
    /\ sent = <<SendToListener(slaves[1], 1, Msg("X", <<>>), 1)>>

\* C10: every message a worker sends to its device carries the stored
\* outbound index plus one and stores it, sent successfully or not, except a
\* handshake descriptor, which carries 0 and stores 0; the stored index
\* changes in no other way than by such a message or by the restart of the
\* counters when a new handshake is requested.
C10_SequenceNumbers ==
    [][\A i \in 1..Len(slaves) :
         LET outs == {k \in 1..Len(sent') :
                         sent'[k].ch = "mosi" /\ sent'[k].to = i}
             rehandshake == slaves'[i].status = "KNOWN"
                            /\ slaves[i].status # "KNOWN"
         IN
         /\ Cardinality(outs) <= 1
         /\ \A k \in outs :
               IF sent'[k].t = "H"
               THEN sent'[k].seq = 0 /\ slaves'[i].mosiIndex = 0
               ELSE /\ sent'[k].seq = slaves[i].mosiIndex + 1
                    /\ slaves'[i].mosiIndex = sent'[k].seq
         /\ (outs = {} /\ ~rehandshake)
            => slaves'[i].mosiIndex = slaves[i].mosiIndex
         /\ slaves'[i].mosiIndex < slaves[i].mosiIndex
            => (rehandshake \/ \E k \in outs : sent'[k].t = "H")]_vars

\* A message whose sendto() failed has still advanced the stored index.
C10_Witness ==
    \E i \in 1..Len(slaves) :
        /\ Len(sent) = 1
        /\ sent[1].ch = "mosi" /\ sent[1].to = i /\ sent[1].n = 0
        /\ sent[1].seq >= 2
        /\ slaves[i].mosiIndex = sent[1].seq

C4_AsStated ==
    [][\A d \in Beacons :
         (/\ d.pass = Passcode /\ GetSlaveIndexByMAC(d.mac) = 0
          /\ ListenerHandle(d))
         => (/\ Len(slaves') = Len(slaves) + 1
             /\ slaves'[Len(slaves')].status = "AVAILABLE")]_vars

\* C4 amended: a device-announce datagram of normal type with the right
\* passcode, both ports in 1..PortMax, a MAC of the expected length and not
\* in the registry appends exactly one record, AVAILABLE, of that MAC, mapped
\* to the position after the prior last one; no existing record or mapping
\* changes.
C4_NewRecord ==
    [][\A d \in Beacons :
         (/\ d.pass = Passcode /\ d.kind = "A" /\ d.type = "N"
          /\ d.misoP \in 1..PortMax /\ d.mosiP \in 1..PortMax
          /\ MacLen(d.mac) = MacLength
          /\ GetSlaveIndexByMAC(d.mac) = 0
          /\ ListenerHandle(d))
         => (/\ Len(slaves') = Len(slaves) + 1
             /\ SubSeq(slaves', 1, Len(slaves)) = slaves
             /\ slaves'[Len(slaves) + 1].status = "AVAILABLE"
             /\ slaves'[Len(slaves) + 1].mac = d.mac
             /\ DOMAIN macToIndexMap' = DOMAIN macToIndexMap \cup {d.mac}
             /\ macToIndexMap'[d.mac] = Len(slaves) + 1
             /\ \A m \in DOMAIN macToIndexMap :
                    macToIndexMap'[m] = macToIndexMap[m])]_vars

\* The discovered device has just been appended behind the saved one.
C4_Witness ==
    /\ Len(slaves) = 2
    /\ slaves[2].status = "AVAILABLE" /\ slaves[2].mac = "m2"
    /\ slaves[2].ip = SenderIP
    /\ macToIndexMap["m2"] = 2
    /\ slaves[1].status = "DISCONNECTED" /\ slaves[1].mac = "m1"

C8_AsStated ==
    emitted.some => Len(emitted.vec) = 2 * (emitted.size * MaxFans)

\* C8 amended: the emitted vector has 2 * MaxFans entries for every device
\* the publisher's pass over the registry read; a device appended after the
\* pass ended is in the registry but not in the vector.
C8_VectorLength ==
    emitted.some =>
        /\ Len(emitted.vec) = 2 * (emitted.D * MaxFans)
        /\ Len(emitted.read) = emitted.D
        /\ emitted.D <= emitted.size

\* A vector was emitted for two devices, the first of which had reported
\* telemetry.
C8_Witness ==
    /\ emitted.some /\ emitted.D = 2
    /\ emitted.read[1] # InitialMISO
    /\ Len(emitted.vec) = 4 * MaxFans

\* C9: in an emitted vector of D devices, fan j of the k-th device read has
\* its RPM at (k-1) * MaxFans + j and its duty cycle at
\* D * MaxFans + (k-1) * MaxFans + j (positions counted from 1).
C9_VectorLayout ==
    emitted.some =>
        \A k \in 1..emitted.D, j \in 1..MaxFans :
            /\ emitted.vec[(k - 1) * MaxFans + j] = emitted.read[k].rpms[j]
            /\ emitted.vec[emitted.D * MaxFans + (k - 1) * MaxFans + j]
                 = emitted.read[k].dcs[j]

\* A vector was emitted for two devices with different RPM vectors.
C9_Witness ==
    /\ emitted.some /\ emitted.D = 2
    /\ emitted.read[1].rpms # emitted.read[2].rpms

\* C11: the reply a receive step hands to the worker carries an index
\* strictly above the stored inbound index, and that index is stored (an 'I'
\* reply then resets it to 0); when every datagram of the wait carries an
\* index at or below the stored one, nothing is handed over and the stored
\* index stays; the stored index decreases only by an 'I' reply or when a new
\* handshake is requested.
C11_InboundIndex ==
    [][\A i \in 1..Len(slaves) :
         /\ \A burst \in ProtoBursts, ok \in BOOLEAN :
               LET r == Receive(slaves[i].misoIndex, burst).reply IN
               (/\ wk[i].pc \in {"hsk", "conn"}
                /\ UNCHANGED <<lis, flashFlag, targetVersion>>
                /\ WorkerHskRecvOn(i, burst, ok) \/ WorkerConnRecvOn(i, burst, ok))
               => /\ r.some => /\ r.idx > slaves[i].misoIndex
                               /\ \E k \in 1..Len(burst) : burst[k].idx = r.idx
                               /\ slaves'[i].misoIndex =
                                     IF r.tag = "I" /\ wk[i].pc = "conn"
                                     THEN 0 ELSE r.idx
                  /\ ~r.some => slaves'[i].misoIndex = slaves[i].misoIndex
                  /\ (\A k \in 1..Len(burst) :
                         burst[k].idx <= slaves[i].misoIndex) => ~r.some
         /\ slaves'[i].misoIndex < slaves[i].misoIndex
            => \/ slaves'[i].status = "KNOWN" /\ slaves[i].status # "KNOWN"
               \/ /\ wk[i].pc = "conn" /\ wk'[i].pc = "top"
                  /\ slaves'[i].misoIndex = 0
                  /\ \E burst \in ProtoBursts :
                        Receive(slaves[i].misoIndex, burst).reply.tag = "I"]_vars

\* A CONNECTED device's stored inbound index is at its highest and its
\* worker, having been handed a reply, is back at the head of its loop.
C11_Witness ==
    \E i \in 1..Len(slaves) :
        /\ slaves[i].status = "CONNECTED"
        /\ slaves[i].misoIndex = MaxSeq
        /\ wk[i].pc = "top" /\ wk[i].timeouts = 0

\* C12: no two records of the registry share a MAC, the map's keys are
\* exactly the MACs of the registry, and the map sends each record's MAC to
\* that record's position.
C12_MacUnique ==
    /\ \A i, j \in 1..Len(slaves) : slaves[i].mac = slaves[j].mac => i = j
    /\ DOMAIN macToIndexMap = {slaves[i].mac : i \in 1..Len(slaves)}
    /\ \A i \in 1..Len(slaves) : macToIndexMap[slaves[i].mac] = i

\* The discovered device, appended behind the saved one, has been added and
\* connected while its beacons kept arriving.
C12_Witness ==
    /\ Len(slaves) = 2
    /\ slaves[1].mac = "m1" /\ slaves[2].mac = "m2"
    /\ slaves[2].status = "CONNECTED"
    /\ macToIndexMap = [m \in {"m1", "m2"} |-> IF m = "m1" THEN 1 ELSE 2]

\* C13: no step shortens the registry or lengthens it by more than one
\* record; every record stays at its position with its MAC, and its MAC keeps
\* its entry in the map; a record appended by the step sits at the new last
\* position, which is what the map holds for its MAC.
C13_AppendOnly ==
    [][/\ Len(slaves') \in {Len(slaves), Len(slaves) + 1}
       /\ \A i \in 1..Len(slaves) :
             /\ slaves'[i].mac = slaves[i].mac
             /\ slaves[i].mac \in DOMAIN macToIndexMap'
             /\ macToIndexMap'[slaves[i].mac] = macToIndexMap[slaves[i].mac]
       /\ Len(slaves') = Len(slaves) + 1
          => macToIndexMap'[slaves'[Len(slaves')].mac] = Len(slaves')]_vars

\* The discovered device has been through a whole connection and is
\* DISCONNECTED, still second behind the saved device.
C13_Witness ==
    /\ Len(slaves) = 2
    /\ slaves[1].mac = "m1" /\ slaves[2].mac = "m2"
    /\ slaves[2].status = "DISCONNECTED"
    /\ macToIndexMap["m2"] = 2

\* The status, endpoint and firmware version of a device record.
Identity(sl) == <<sl.status, sl.ip, sl.misoP, sl.mosiP, sl.version>>

C15_AtomicPromotion ==
    [][(lis.pend /\ ~lis'.pend)
       => /\ slaves[lis.index].status \in {"DISCONNECTED", "UPDATING"}
          /\ Identity(slaves'[lis.index]) = <<"KNOWN">> \o lis.netargs]_vars

\* C16: while an update is pending, a validated announce beacon of a known
\* MAC that reports a version other than the target is answered with the
\* reboot directive alone, and neither the registry nor the map changes and
\* no promotion is requested, whatever the status of the device.
C16_RebootDirective ==
    [][\A d \in Beacons :
         LET i == GetSlaveIndexByMAC(d.mac) IN
         (/\ d.pass = Passcode /\ d.kind = "A" /\ d.type = "N"
          /\ d.misoP \in 1..PortMax /\ d.mosiP \in 1..PortMax
          /\ MacLen(d.mac) = MacLength
          /\ i # 0 /\ flashFlag /\ d.version # targetVersion
          /\ ListenerHandle(d))
         => (/\ sent' = <<ListenerReply(RebootMessage)>>
             /\ slaves' = slaves
             /\ macToIndexMap' = macToIndexMap
             /\ ~lis'.pend)]_vars

\* With an update pending, a device in UPDATING announced itself with the
\* old version, was sent the reboot directive and is still UPDATING.
C16_Witness ==
    \E i \in 1..Len(slaves) :
        /\ slaves[i].status = "UPDATING"
        /\ flashFlag /\ ~lis.pend
        /\ sent = <<ListenerReply(RebootMessage)>>

\* C17: the reply to a bootloader beacon with the configured passcode is
\* decided by the update flag: the launch directive when no update is
\* pending, the flash directive when one is; and a beacon of an unknown MAC
\* gets a launch directive only when no update is pending.
C17_BootloaderReply ==
    [][\A d \in Beacons :
         (/\ d.pass = Passcode /\ d.kind = "B" /\ d.type = "N"
          /\ ListenerHandle(d))
         => (/\ Len(sent') >= 1
             /\ sent'[1] = ListenerReply(IF flashFlag THEN flashMessage
                                                      ELSE LaunchMessage)
             /\ (/\ GetSlaveIndexByMAC(d.mac) = 0
                 /\ \E k \in 1..Len(sent') :
                        sent'[k] = ListenerReply(LaunchMessage))
                => ~flashFlag)]_vars

\* C18 as stated: a datagram with another passcode, with an announced port
\* outside [1, PortMax] or with a MAC of another length than MacLength is
\* dropped: registry and map unchanged, nothing sent, listener free for the
\* next datagram.
C18_AsStated ==
    [][\A d \in Beacons :
         (/\ \/ d.pass # Passcode
             \/ /\ d.kind = "A" /\ d.type = "N"
                /\ (PortBad(d.misoP) \/ PortBad(d.mosiP))
             \/ MacLen(d.mac) # MacLength
          /\ ListenerHandle(d))
         => (/\ slaves' = slaves /\ macToIndexMap' = macToIndexMap
             /\ wk' = wk
             /\ sent' = <<>>
             /\ ~lis'.pend)]_vars

\* C18: a datagram with another passcode, and a device-announce beacon
\* (kind 'A', type 'N') with a port outside [1, PortMax] or a MAC of another
\* length than MacLength, is dropped with a warning: registry and map
\* unchanged, nothing sent, listener free for the next datagram.
C18_InvalidDiscarded ==
    [][\A d \in Beacons :
         (/\ \/ d.pass # Passcode
             \/ /\ d.kind = "A" /\ d.type = "N"
                /\ \/ d.misoP < 1 \/ d.misoP > PortMax
                   \/ d.mosiP < 1 \/ d.mosiP > PortMax
                   \/ MacLen(d.mac) # MacLength
          /\ ListenerHandle(d))
         => (/\ slaves' = slaves /\ macToIndexMap' = macToIndexMap
             /\ wk' = wk
             /\ sent' = <<>>
             /\ lis'.warned = "discarded" /\ ~lis'.pend)]_vars

\* The listener has just dropped a datagram with a warning, after the
\* registry had grown by a discovered device; nothing was sent.
C18_Witness ==
    /\ lis.warned = "discarded" /\ ~lis.pend
    /\ sent = <<>>
    /\ Len(slaves) = 2 /\ DOMAIN macToIndexMap = {"m1", "m2"}

\* C19: the registry is mutated (a record appended, the map written, a
\* status changed) only by a step that holds slavesLock, that is, never
\* while another task holds it.
C19_MutationsUnderLock ==
    [][(\/ Len(slaves') # Len(slaves)
        \/ macToIndexMap' # macToIndexMap
        \/ \E i \in 1..Len(slaves) : slaves'[i].status # slaves[i].status)
       => Acquired]_vars

\* C20: a status update attempted while slavesLock is held elsewhere for the
\* whole bounded wait is given up: no device's status or endpoint changes,
\* nothing is put on slaveUpdateQueue, and the listener's pending update
\* ends with the registry as it was and the listener free for the next
\* datagram.
C20_LockTimeout ==
    [][slavesLock = Held
       => /\ \A i \in 1..Len(slaves) :
               /\ slaves'[i].status = slaves[i].status
               /\ slaves'[i].ip = slaves[i].ip
               /\ slaves'[i].misoP = slaves[i].misoP
               /\ slaves'[i].mosiP = slaves[i].mosiP
          /\ slaveUpdateQueue' = slaveUpdateQueue
          /\ (lis.pend /\ ~lis'.pend)
             => /\ slaves' = slaves
                /\ lis'.warned = "skipped"]_vars

\* The listener gave up the promotion of a device it had seen DISCONNECTED
\* or UPDATING: the lock is held elsewhere, the warning was printed, the
\* device is still not KNOWN and the listener reads datagrams again.
C20_Witness ==
    /\ slavesLock = Held
    /\ lis.warned = "skipped" /\ ~lis.pend
    /\ Len(slaves) = 2 /\ slaves[2].status = "DISCONNECTED"
    /\ slaves[2].ip = SenderIP

\* C21: in every run of missed replies of a CONNECTED device, the missed
\* reply that brings the counter to MaxTimeouts - 1 is answered with one 'Q',
\* the one that brings it to MaxTimeouts with one 'Y', and the device is
\* declared DISCONNECTED only past that, the 'Y' having gone out in the same
\* run.
C21_ProbesEveryEpisode ==
    [][\A i \in 1..Len(slaves) :
         (/\ wk[i].pc = "conn" /\ slaves[i].status = "CONNECTED"
          /\ wk'[i].pc = "top"
          /\ \/ wk'[i].timeouts = wk[i].timeouts + 1
             \/ slaves'[i].status = "DISCONNECTED")
         => LET t == wk[i].timeouts + 1 IN
            /\ t = MaxTimeouts - 1
               => (Len(sent') = 1 /\ sent'[1].t = "Q" /\ sent'[1].to = i)
            /\ t = MaxTimeouts
               => (Len(sent') = 1 /\ sent'[1].t = "Y" /\ sent'[1].to = i)
            /\ slaves'[i].status = "DISCONNECTED" => t > MaxTimeouts]_vars

\* The fan counts of the devices before position k, and the part of the
\* vector's data C that belongs to device k: fans(k) entries from there on,
\* zero where the vector has ended and up to MaxFans entries.
RECURSIVE FansBefore(_)
FansBefore(k) == IF k = 1 THEN 0 ELSE FansBefore(k - 1) + slaves[k - 1].fans
VectorPart(C, k) ==
    [j \in 1..MaxFans |->
        IF j <= slaves[k].fans /\ FansBefore(k) + j <= Len(C)
        THEN C[FansBefore(k) + j] ELSE 0]

C23_UnknownOpcode ==
    [][/\ InputUnknown
          => /\ UNCHANGED <<slaves, macToIndexMap, flashFlag, targetVersion,
                            flashMessage, stopped, bc, wk, lis>>
             /\ sent' = <<>>
             /\ inp'.alive /\ inp'.last = "warned"
       /\ \A dc \in DutyCycles :
            (inp.last = "warned" /\ CtlDcSingleAllOn(dc))
            => /\ inp'.alive /\ inp'.last = "handled"
               /\ \A k \in 1..Len(slaves) :
                    slaves[k].status = "CONNECTED"
                    => /\ slaves'[k].mosiQ # <<>>
                       /\ slaves'[k].mosiQ[Len(slaves'[k].mosiQ)]
                            = Cmd(MOSI_DC, <<dc>>)]_vars

\* The router has just logged an unknown opcode while a device is CONNECTED
\* with a command in its mailbox.
C23_Witness ==
    /\ inp.alive /\ inp.last = "warned"
    /\ \E k \in 1..Len(slaves) :
         slaves[k].status = "CONNECTED" /\ slaves[k].mosiQ # <<>>

\* The targets of the list T that a handler's loop reaches: those with no
\* missing position at or before them.
Reached(T) ==
    {T[j] : j \in {h \in 1..Len(T) :
                     \A g \in 1..h : T[g] \in 1..Len(slaves)}}
HasMissing(T) == \E j \in 1..Len(T) : T[j] \notin 1..Len(slaves)

\* What an add command makes of device k when its loop reaches it, and of
\* every other device.
AddedOrSkipped(k, reached) ==
    IF reached /\ slaves[k].status = "AVAILABLE"
    THEN /\ slaves'[k].status = "KNOWN"
         /\ slaves'[k].mac = slaves[k].mac
         /\ slaves'[k].mosiQ = slaves[k].mosiQ
    ELSE slaves'[k] = slaves[k]

\* The same for a single-fan duty-cycle command.
EnqueuedOrSkipped(k, reached, dc) ==
    IF reached /\ slaves[k].status = "CONNECTED"
    THEN /\ slaves'[k].mosiQ # <<>>
         /\ slaves'[k].mosiQ[Len(slaves'[k].mosiQ)] = Cmd(MOSI_DC, <<dc>>)
         /\ slaves'[k].status = "CONNECTED"
    ELSE slaves'[k] = slaves[k]

Contained(i, task) ==
    /\ stopped' = stopped
    /\ sent' = sent \/ \A j \in 1..Len(sent') : sent'[j].t \notin {"X", "R"}
    /\ slaves' = slaves
    /\ \A k \in 1..Len(slaves) : k # i => wk'[k] = wk[k]
    /\ task # "listener" => lis' = lis
    /\ task # "publisher" => pub' = pub /\ emitted' = emitted
    /\ task # "router" => inp' = inp
    /\ task # "broadcaster" => bc' = bc

\* Every fault of a worker, the listener, the publisher or the router is
\* contained.
OthersContained ==
    /\ \A i \in 1..Len(slaves) :
         (WorkerSetupFault(i) \/ WorkerLoopFault(i)) => Contained(i, "worker")
    /\ ListenerFault => Contained(0, "listener")
    /\ PublisherFault => Contained(0, "publisher")
    /\ RouterPipeFault => Contained(0, "router")

\* C25 as stated: a fault in any task, the broadcaster included, is
\* contained.
C25_AsStated ==
    [][OthersContained
       /\ (BroadcastFault => Contained(0, "broadcaster"))]_vars

\* C25 (amended): a fault in a worker, the listener, the publisher or the
\* router is contained; a fault in the broadcaster ends the broadcaster,
\* makes the one attempt to broadcast the disconnect directive and sets the
\* stop signal, and changes no device record, worker or other task.
C25_FaultsContained ==
    [][OthersContained
       /\ (BroadcastFault
           => /\ ~bc'.alive /\ stopped'
              /\ \E ok \in BOOLEAN : sent' = <<SendDisconnect(ok)>>
              /\ UNCHANGED <<slaves, wk, lis, pub, emitted, inp>>)]_vars

\* The broadcaster, the router and one worker have ended on a fault, the
\* stop signal is set, and the other device is still CONNECTED.
C25_Witness ==
    /\ ~bc.alive /\ stopped /\ ~inp.alive
    /\ \E i \in 1..Len(slaves) : wk[i].pc = "dead"
    /\ \E k \in 1..Len(slaves) :
         slaves[k].status = "CONNECTED" /\ wk[k].pc # "dead"

Outputs ==
    \/ \E i \in 1..Len(slaves) :
         WorkerHandshake(i, {TRUE}) \/ WorkerCycle(i, {TRUE})
    \/ BroadcastBeacon
    \/ PubSend

\* C27: once the stop signal is set, from some moment on no worker sends, the
\* broadcaster sends no beacon and the publisher emits no snapshot.
C27_StopObserved == <>[][stopped => ~Outputs]_vars

\* C28: in a handshake, a wait that ends with a 'K' reply leaves the retries
\* as they are, sends nothing and keeps the device KNOWN and the handshake
\* going; a wait that ends with no reply, or with a reply that is neither
\* 'H' nor 'K', resends the descriptor and uses up one retry while any is
\* left, and otherwise sends 'X' and sets the device DISCONNECTED; so the
\* device is given up only when all HskTries retries are used up, however
\* many 'K' replies came in between.
C28_AckPendingFree ==
    [][\A burst \in ProtoBursts, ok \in BOOLEAN :
         (/\ wk[1].pc = "hsk"
          /\ UNCHANGED <<lis, flashFlag, targetVersion>>
          /\ WorkerHskRecvOn(1, burst, ok))
         => LET r == Receive(slaves[1].misoIndex, burst).reply IN
            /\ wk[1].tries \in 0..HskTries
            /\ (r.some /\ r.tag = "K")
               => /\ wk'[1].tries = wk[1].tries
                  /\ wk'[1].pc = "hsk"
                  /\ sent' = <<>>
                  /\ slaves'[1].status = slaves[1].status
            /\ (~r.some \/ r.tag \notin {"H", "K"})
               => IF wk[1].tries > 0
                  THEN /\ wk'[1].tries = wk[1].tries - 1
                       /\ wk'[1].pc = "hsk"
                       /\ Len(sent') = 1 /\ sent'[1].t = "H"
                       /\ slaves'[1].status = slaves[1].status
                  ELSE /\ wk'[1].pc = "top"
                       /\ Len(sent') = 1 /\ sent'[1].t = "X"
                       /\ slaves'[1].status = "DISCONNECTED"
            /\ slaves'[1].status = "DISCONNECTED" => wk[1].tries = 0]_vars

\* A handshake in which replies did arrive has used up its retries and has
\* ended with the device given up.
C28_Witness ==
    /\ wk[1].pc = "top" /\ ~wk[1].hskQuiet
    /\ slaves[1].status = "DISCONNECTED"
    /\ slaves[1].misoIndex > 0
    /\ sent # <<>> /\ sent[1].t = "X"

\* C29: whenever the worker of a CONNECTED device starts a pass of its loop
\* while an update is pending and the device's version is not the target's,
\* that pass sends the reboot directive 'R' to the device, sets it
\* DISCONNECTED, leaves its mailbox as it is and ends at the head of the loop
\* without a receive wait.
C29_RebootOnMismatch ==
    [][\A i \in 1..Len(slaves) :
         (/\ wk[i].pc = "top" /\ slaves[i].status = "CONNECTED"
          /\ flashFlag /\ slaves[i].version # targetVersion
          /\ WorkerReboot(i, {TRUE}) \/ WorkerCycle(i, {TRUE}))
         => /\ Len(sent') = 1
            /\ sent'[1].t = "R" /\ sent'[1].ch = "mosi" /\ sent'[1].to = i
            /\ slaves'[i].status = "DISCONNECTED"
            /\ slaves'[i].mosiQ = slaves[i].mosiQ
            /\ wk'[i].pc = "top"]_vars

\* A device with a command waiting has just been rebooted for its version.
C29_Witness ==
    /\ flashFlag
    /\ \E i \in 1..Len(slaves) :
         /\ slaves[i].status = "DISCONNECTED"
         /\ slaves[i].version # targetVersion
         /\ slaves[i].mosiQ # <<>>
         /\ wk[i].pc = "top"
         /\ sent # <<>> /\ sent[1].t = "R" /\ sent[1].ch = "mosi"

\* What a steady-state cycle of device i leaves behind when its mailbox held
\* the queue q and the last sent message was last: the datagram on the wire,
\* the mailbox and the outbound sequence number.
CycleSends(i, q, last, index) ==
    /\ Len(sent') = 1
    /\ sent'[1].to = i
    /\ slaves'[i].mosiQ = IF q = <<>> THEN q ELSE Tail(q)
    /\ wk'[i].pc = "conn"
    /\ IF q # <<>> /\ Head(q).code \in {MOSI_DISCONNECT, MOSI_REBOOT}
       THEN /\ sent'[1].ch = "lst"
            /\ sent'[1].seq = -1
            /\ sent'[1].n = 2
            /\ sent'[1].t = IF Head(q).code = MOSI_DISCONNECT THEN "X" ELSE "R"
            /\ slaves'[i].mosiIndex = index
            /\ wk'[i].message = last
       ELSE LET m == IF q = <<>> THEN last ELSE CmdMessage(Head(q))
            IN /\ sent'[1].ch = "mosi"
               /\ sent'[1].n = 1
               /\ sent'[1].seq = index + 1
               /\ slaves'[i].mosiIndex = index + 1
               /\ sent'[1].t = m.t
               /\ sent'[1].a = m.a
               /\ wk'[i].message = m

\* C30 as stated: every steady-state cycle of a CONNECTED device dequeues at
\* most one command and puts exactly one datagram on the wire, which carries
\* the device's current outbound sequence number, then waits for a reply.
C30_AsStated ==
    [][\A i \in 1..Len(slaves) :
          WorkerCycle(i, {TRUE})
          => /\ Len(slaves[i].mosiQ) - Len(slaves'[i].mosiQ) \in {0, 1}
             /\ Len(sent') = 1
             /\ sent'[1].n = 1
             /\ sent'[1].seq = slaves'[i].mosiIndex
             /\ wk'[i].pc = "conn"]_vars

\* C30: every steady-state cycle of a CONNECTED device dequeues at most one
\* command; a dequeued duty-cycle command, or the last sent message when the
\* mailbox is empty, goes out as exactly one datagram carrying the newly
\* incremented outbound sequence number; a dequeued disconnect or reboot goes
\* out as two copies on the device's listener port with no sequence number
\* and leaves the outbound sequence number alone; then the worker waits for
\* a reply.
C30_OneCommandPerCycle ==
    [][\A i \in 1..Len(slaves) :
          WorkerCycle(i, {TRUE})
          => CycleSends(i, slaves[i].mosiQ, wk[i].message,
                        slaves[i].mosiIndex)]_vars

\* A cycle has just sent a dequeued disconnect on the listener port as two
\* copies while the command enqueued after it stays in the mailbox.
C30_Witness ==
    \E i \in 1..Len(slaves) :
        /\ wk[i].pc = "conn"
        /\ sent # <<>>
        /\ sent[1].to = i
        /\ sent[1].ch = "lst"
        /\ sent[1].t = "X"
        /\ sent[1].n = 2
        /\ slaves[i].status = "CONNECTED"
        /\ slaves[i].mosiQ # <<>>

\* C31 as stated: the vector handler enqueues, to every CONNECTED device,
\* the fans(k) entries of the vector that start after the fan counts of the
\* devices before it, zero-padded to MaxFans entries, and leaves every
\* other device as it is.
C31_AsStated ==
    [][\A C \in Vectors :
         CtlDcVectorOn(C)
         => \A k \in 1..Len(slaves) :
              IF slaves[k].status = "CONNECTED"
              THEN /\ slaves'[k].mosiQ # <<>>
                   /\ slaves'[k].mosiQ[Len(slaves'[k].mosiQ)]
                        = Cmd(MOSI_DC_MULTI, VectorPart(C, k))
              ELSE slaves'[k] = slaves[k]]_vars

\* C31: the vector handler never misaligns data across devices with
\* different fan counts: every CONNECTED device whose part of the vector
\* starts before the vector's end is enqueued exactly the fans(k) entries
\* that start after the fan counts of the devices before it, cut at the
\* vector's end and zero-padded to MaxFans entries; a device that is not
\* CONNECTED, or whose part starts at or after the vector's end, is
\* enqueued nothing, and a device that is not CONNECTED still has its
\* fans(k) entries skipped.
C31_VectorAligned ==
    [][\A C \in Vectors :
         CtlDcVectorOn(C)
         => \A k \in 1..Len(slaves) :
              IF slaves[k].status = "CONNECTED" /\ FansBefore(k) < Len(C)
              THEN /\ slaves'[k].mosiQ # <<>>
                   /\ slaves'[k].mosiQ[Len(slaves'[k].mosiQ)]
                        = Cmd(MOSI_DC_MULTI, VectorPart(C, k))
                   /\ Len(slaves'[k].mosiQ)
                        = Min(Len(slaves[k].mosiQ) + 1, MaxQueue)
                   /\ slaves'[k].status = "CONNECTED"
              ELSE slaves'[k] = slaves[k]]_vars

\* Two devices with different fan counts are CONNECTED and the second one's
\* mailbox ends with a slice that starts right after the first one's
\* entries.
C31_Witness ==
    /\ Len(slaves) = 2
    /\ slaves[1].fans # slaves[2].fans
    /\ slaves[1].status = "CONNECTED"
    /\ slaves[2].status = "CONNECTED"
    /\ slaves[1].mosiQ # <<>>
    /\ slaves[2].mosiQ # <<>>
    /\ slaves[1].mosiQ[Len(slaves[1].mosiQ)].code = MOSI_DC_MULTI
    /\ slaves[2].mosiQ[Len(slaves[2].mosiQ)].code = MOSI_DC_MULTI
    /\ slaves[2].mosiQ[Len(slaves[2].mosiQ)].a[1] = 1 + slaves[1].fans

C33_AsStated ==
    [][Stop => (sent' = <<DisconnectBroadcast>> /\ stopped')]_vars

\* C33: stop() makes exactly one attempt to send the disconnect broadcast --
\* one datagram, or none when the send raises -- and then sets the stop
\* signal; no step clears the signal once it is set; and a join() with no
\* timeout has returned only if the signal is set, and returns once it is.
C33_StopAndJoin ==
    /\ [][/\ Stop => /\ stopped'
                      /\ Len(sent') = 1
                      /\ sent'[1].ch = "bc" /\ sent'[1].t = "X"
                      /\ sent'[1].n \in {0, 1}
          /\ stopped => stopped'
          /\ joined => joined'
          /\ (~joined /\ joined') => stopped]_vars
    /\ [](joined => stopped)
    /\ (stopped ~> joined)

\* join() has returned after a stop() whose disconnect broadcast went out.
C33_Witness ==
    /\ joined
    /\ stopped
    /\ sent = <<DisconnectBroadcast>>

\* C34: handle_error ends with a result; it invokes the strategy registered
\* for the error's type at most MaxRetryAttempts times, each invocation but
\* the last one having returned False; the result is TRUE exactly when the
\* last of those invocations returned True, and FALSE when no strategy is
\* registered, when the strategy raises and when every invocation failed;
\* the error history takes the new entry at its end, never holds more than
\* MaxHistory entries, and loses its oldest entry first.
C34_BoundedRecovery ==
    [][\A type \in ErrorTypes, script \in Scripts :
         (/\ recovery'.last.type = type /\ recovery'.last.script = script
          /\ HandleErrorOn(type, script))
         => LET n == recovery'.last.invoked
                result == recovery'.last.result
                h == recovery.history \o <<type>>
                kept == recovery'.history
            IN /\ n \in 0..MaxRetryAttempts
               /\ \A j \in 1..(n - 1) : script[j] = "fail"
               /\ result \in BOOLEAN
               /\ result <=> (n >= 1 /\ script[n] = "ok")
               /\ type \notin recovery.strategies => (n = 0 /\ ~result)
               /\ type \in recovery.strategies => n >= 1
               /\ (n >= 1 /\ script[n] = "fail") => n = MaxRetryAttempts
               /\ Len(kept) = Min(Len(h), MaxHistory)
               /\ \A j \in 1..Len(kept) :
                    kept[j] = h[j + Len(h) - Len(kept)]]_vars

\* An error of a registered type has been handled with a strategy that
\* failed twice and then succeeded, on a history that was already full.
C34_Witness ==
    /\ recovery.last.invoked = MaxRetryAttempts
    /\ recovery.last.result
    /\ Len(recovery.history) = MaxHistory
    /\ recovery.history[1] # recovery.history[MaxHistory]

\* C35: the stored data index and the stored feedback pair of a device are
\* updated together: a worker's step on any telemetry reply, a malformed or
\* short one included, either leaves both as they were or replaces the index
\* by the reply's and the pair by the reply's two parsed lists.
C35_IndexAndPairTogether ==
    [][\A i \in 1..Len(slaves), burst \in DataBursts :
         LET r == Receive(slaves[i].misoIndex, burst).reply IN
         (r.some /\ r.tag = "T" /\ WorkerConnRecvOn(i, burst, TRUE))
         => \/ /\ slaves'[i].dataIndex = slaves[i].dataIndex
               /\ slaves'[i].miso = slaves[i].miso
            \/ /\ r.nf >= 3
               /\ slaves'[i].dataIndex = r.f2
               /\ slaves'[i].miso = [rpms |-> CsvParse(RpmField(r)),
                                     dcs |-> CsvParse(DcField(r))]]_vars

\* C36: in every reachable state a device that is KNOWN or CONNECTED has a
\* learned endpoint -- an ip and an inbound and an outbound port in
\* [1, PortMax] -- so every datagram a worker sent in the last step went to a
\* device whose address is set; this covers saved devices, discovered ones
\* and devices that pass through UPDATING.
C36_EndpointLearned ==
    /\ \A i \in 1..Len(slaves) :
         slaves[i].status \in {"KNOWN", "CONNECTED"}
         => /\ slaves[i].ip # NoIP
            /\ ~PortBad(slaves[i].misoP)
            /\ ~PortBad(slaves[i].mosiP)
    /\ \A k \in 1..Len(sent) :
         sent[k].ch = "mosi" => slaves[sent[k].to].ip # NoIP

\* The saved device, which began with no endpoint, is CONNECTED at the
\* beacon's address, the discovered one has been added and is KNOWN, and the
\* last step sent a worker's datagram.
C36_Witness ==
    /\ Len(slaves) >= 2
    /\ slaves[1].status = "CONNECTED" /\ slaves[1].ip = SenderIP
    /\ slaves[2].status = "KNOWN" /\ slaves[2].ip = SenderIP
    /\ \E k \in 1..Len(sent) : sent[k].ch = "mosi"

\* The flash message is set, and it and the target version are those of the
\* start vector the router took last.
FlashSet ==
    /\ flashMessage # NoFlashMessage
    /\ flashMessage = FlashMessageOf(inp.D)
    /\ targetVersion = inp.D.version

\* C37: whenever the listener (handling a datagram) or a worker (at the head
\* of a steady-state cycle) finds the firmware-update flag true, the flash
\* message is set and it and the target version are those of the most recent
\* start vector; and a start vector whose handling fails leaves the flag
\* false.
C37_FlashTripleConsistent ==
    /\ [][\A d \in FlashBeacons :
            (flashFlag /\ ListenerHandle(d)) => FlashSet]_vars
    /\ [][(flashFlag /\ (QuietCycle \/ QuietReboot)) => FlashSet]_vars
    /\ [][((StartListed \/ FUpdateStartFlag) /\ inp'.last = "error"
           /\ inp'.at = "loop")
          => ~flashFlag']_vars

\* C38: every handshake descriptor a worker sends, the first and each retry,
\* names the ports of the private sockets on which the worker then waits for
\* the reply; a worker waiting for a handshake reply never waits on sockets
\* bound to other ports than those in the last descriptor it sent.
C38_DescriptorMatchesSockets ==
    /\ [][\A k \in 1..Len(sent') :
            sent'[k].t = "H" /\ sent'[k].n > 0
            => (wk'[sent'[k].to].pc = "hsk"
                => wk'[sent'[k].to].sock = sent'[k].a[1])]_vars
    /\ [](\A i \in 1..Len(slaves) :
            (wk[i].pc = "hsk" /\ wk[i].advertised # 0)
            => wk[i].sock = wk[i].advertised)

\* C39: a worker's remembered message is a ping until the worker dequeues a
\* duty-cycle command (single-fan or vector) and from then on the message of
\* the last such command it dequeued: no other step changes it -- no
\* disconnect, reboot, re-announce or handshake -- and a steady-state cycle
\* that finds the mailbox empty sends exactly the remembered message.
C39_RememberedMessage ==
    /\ \A i \in 1..Len(wk) : wk[i].message = Ping
    /\ [][/\ Len(wk') > Len(wk) => wk'[Len(wk')].message = Ping
          /\ \A i \in 1..Len(slaves) :
               LET q == slaves[i].mosiQ
                   dc == q # <<>> /\ Head(q).code \in {MOSI_DC, MOSI_DC_MULTI}
               IN
               /\ wk'[i].message # wk[i].message
                  => dc /\ QuietCycle /\ slaves'[i].mosiQ = Tail(q)
               /\ (dc /\ WorkerCycle(i, {TRUE}))
                  => wk'[i].message = CmdMessage(Head(q))
               /\ (q = <<>> /\ WorkerCycle(i, {TRUE}))
                  => /\ Len(sent') = 1
                     /\ sent'[1].ch = "mosi" /\ sent'[1].to = i
                     /\ sent'[1].t = wk[i].message.t
                     /\ sent'[1].a = wk[i].message.a]_vars

\* A worker is in a new handshake, after a connection in which it dequeued a
\* duty-cycle command, and still remembers that command.
C39_Witness ==
    \E i \in 1..Len(slaves) :
        /\ slaves[i].status = "KNOWN" /\ wk[i].pc = "hsk"
        /\ wk[i].message # Ping

============================================================================
